---- MODULE Spec2Model ----
(***************************************************************************)
(* Model of the solver-driver core: the block-driven solve loop            *)
(* (crates/driver/src/driver.rs, Driver::solve_until_deadline and          *)
(* Driver::compute_solution_for_block) running against a watch-style       *)
(* block stream, a converter and a commit-reveal solver.                   *)
(***************************************************************************)
EXTENDS Integers, Sequences, FiniteSets, TLC

\* ------------------------------------------------------------------ bounds

\* Number of blocks the channel carries over a run (the initial value included).
MaxBlocks == 3
\* Number of distinct summaries a solver may answer a commit with.
NumSummaries == 2

\* Connections that call replace_current_auction, and calls made in all.
NumWriters == 2
MaxReplaces == 2

\* Auction ids of solver competition records: 0..MaxAuctionId.
MaxAuctionId == 1

\* Bits of the unsigned integers in the model: a U256 has U256Bits bits, a u32
\* has U32Bits bits and a u64 has U64Bits bits, so that values beyond them can
\* be written.
U256Bits == 3
U32Bits == 2
U64Bits == 4

\* Pieces the deployed code given to verify_deployed_contract_constants has at most.
MaxPieces == 2

\* Orders given to filter_orders at most.
MaxOrders == 2

\* Rows the query of solvable_orders gives at most.
MaxRows == 2

\* Seconds the clock advances in one step.
TickSecs == 10

\* Steps of the clock a running loop is followed past its deadline.
MaxLateTicks == 1

\* --------------------------------------------------------------- constants

\* Seconds on_auction_started gives the solve loop.
DeadlineSecs == 25

\* Bytes of an H160, of an H256 and of an OrderUid.
H160Len == 20
H256Len == 32
OrderUidLen == 56

\* Block.number of a block whose number is not populated (Option::None).
NoNumber == 0

Sentinel == "reached the deadline without a result"
NoBlockNumberError == "no block number"
ConvertError == "failed to convert auction"
CommitError == "failed to solve auction"

Summaries == 1..NumSummaries

\* anyhow::Result<SettlementSummary>
Ok(s) == [tag |-> "Ok", summary |-> s, err |-> ""]
Err(e) == [tag |-> "Err", summary |-> 0, err |-> e]
\* no value (an iteration that has not completed, a call that has not returned)
NoResult == [tag |-> "None", summary |-> 0, err |-> ""]

VARIABLES
    published,        \* every value the watch channel held, in order; the last is current
    senderAlive,      \* the channel's sender has not been dropped
    pc,               \* solve_until_deadline: "init" (not called), "running", "done"
    rxSeen,           \* the version the loop's stream yielded last (0: nothing yet)
    subscribedAt,     \* the channel's version when the loop created its stream
    iters,            \* one record per iteration of compute_solution_for_block, in order begun
    current_solution, \* the loop's local of that name
    lastCompleted,    \* index in iters of the iteration that completed most recently (0: none)
    returned,         \* the value solve_until_deadline returned
    cause,            \* which select arm returned: "none", "deadline", "stream_end"
    won,              \* the state of one on_auction_won call
    clock,            \* the time in seconds: now, and the loop's start, deadline and return
    table,            \* the committed rows of the auction table
    nextId,           \* the next value of the id sequence of the auction table
    txn,              \* per writer: the replace_current_auction call in progress
    history,          \* the rows committed so far, in commit order
    started,          \* how many replace_current_auction calls were made
    lastRead,         \* what the last most_recent_auction call returned
    rec,              \* the SolverCompetition given to serde_json::to_value
    serialized,       \* the JSON value it gave
    deserialized,     \* what serde_json::from_value made of that value
    competitions,     \* the rows of the solver competition table
    saved,            \* the records whose save succeeded, in order
    lastSave,         \* if the last call was a save: what it was given and returned
    lastLoad,         \* if the last call was a load: what it was given and returned
    fullOrder,        \* the stored row given to full_order_into_model_order
    materialised,     \* what full_order_into_model_order returned for it
    verified,         \* one verify_deployed_contract_constants call: what it was given and returned
    filtered,         \* one filter_orders call: what it was given and returned
    solvable          \* one solvable_orders call: what the queries gave and what it returned

\* the variables of the solve loop
loopVars == <<published, senderAlive, pc, rxSeen, subscribedAt, iters,
              current_solution, lastCompleted, returned, cause>>

vars == <<published, senderAlive, pc, rxSeen, subscribedAt, iters,
          current_solution, lastCompleted, returned, cause, won, clock,
          table, nextId, txn, history, started, lastRead,
          rec, serialized, deserialized, competitions, saved, lastSave, lastLoad,
          fullOrder, materialised, verified, filtered, solvable>>

orderVars == <<fullOrder, materialised>>

jsonVars == <<rec, serialized, deserialized>>
competitionVars == <<competitions, saved, lastSave, lastLoad>>
storeVars == <<table, nextId, txn, history, started, lastRead>>

\* what a step of the solve loop, of on_auction_won, of the timed loop and of
\* the auction store leaves alone
exceptLoop == <<won, clock, storeVars, jsonVars, competitionVars, orderVars,
               verified, filtered, solvable>>
exceptWon == <<loopVars, clock, storeVars, jsonVars, competitionVars, orderVars,
              verified, filtered, solvable>>
exceptTimed == <<won, storeVars, jsonVars, competitionVars, orderVars,
                verified, filtered, solvable>>
exceptStore == <<loopVars, won, clock, jsonVars, competitionVars, orderVars,
                verified, filtered, solvable>>
exceptJson == <<loopVars, won, clock, storeVars, competitionVars, orderVars,
               verified, filtered, solvable>>
exceptOrder == <<loopVars, won, clock, storeVars, jsonVars, competitionVars,
                verified, filtered, solvable>>
exceptCompetition == <<loopVars, won, clock, storeVars, jsonVars, orderVars,
                      verified, filtered, solvable>>
exceptVerify == <<loopVars, won, clock, storeVars, jsonVars, competitionVars, orderVars,
                 filtered, solvable>>
exceptFilter == <<loopVars, won, clock, storeVars, jsonVars, competitionVars, orderVars,
                 verified, solvable>>
exceptSolvable == <<loopVars, won, clock, storeVars, jsonVars, competitionVars,
                   orderVars, verified, filtered>>

\* ------------------------------------------------------------ block stream

\* The version (index in published) of the channel's current value.
Latest == Len(published)

\* The stream has an item to yield: its first poll yields the current value,
\* later polls yield once the channel changed since the last yield.
StreamHasItem == rxSeen = 0 \/ rxSeen < Latest

\* The stream yields None: nothing unseen and the sender is gone.
StreamTerminated == rxSeen # 0 /\ rxSeen = Latest /\ ~senderAlive

\* block_number(&block): the number, or the error "no block number".
block_number(block) == IF block = NoNumber THEN Err(NoBlockNumberError) ELSE Ok(block)

\* ----------------------------------------------------------------- helpers

InFlight == {i \in 1..Len(iters) : iters[i].stage \in {"convert", "commit"}}

\* Index of the latest iteration whose commit succeeded (0: none).
LatestSuccessful ==
    LET S == {i \in 1..Len(iters) : iters[i].result.tag = "Ok"}
    IN IF S = {} THEN 0 ELSE CHOOSE i \in S : \A j \in S : j <= i

\* The Then combinator polls the block stream only while no future of
\* compute_solution_for_block is pending.
ThenReady_Concurrent == TRUE

ThenReady == InFlight = {}

\* ------------------------------------------------------- on_auction_won data

\* Opaque values of the collaborators: the settlements a solver may reveal,
\* the gas estimates a simulation may produce, the transaction hashes a
\* receipt may carry; and the absent value of each.
Settlements == {"settlement A", "settlement B"}
GasEstimates == {"gas estimate A", "gas estimate B"}
TxHashes == {"0xaa", "0xbb"}
NoSettlement == "no settlement"
NoGas == "no gas estimate"
NoHash == "no hash"

\* ExecuteError::ExecutionRejected, and the messages of the other errors
ExecutionRejected == "ExecutionRejected"
RevealError == "failed to reveal settlement"
GasPriceError == "failed to estimate gas price"
SimulateError == "failed to simulate settlements"
NoSimulationResults == "simulation returned no results"
SimulationFailed == "simulation failed"
\* the failure classes of SubmissionError
SubmissionErrors == {"transaction reverted", "submission timed out"}

\* Result<H256, ExecuteError>
WonOk(h) == [tag |-> "Ok", hash |-> h, err |-> ""]
WonErr(e) == [tag |-> "Err", hash |-> NoHash, err |-> e]
WonNoResult == [tag |-> "None", hash |-> NoHash, err |-> ""]

\* Result<GasEstimate, SimulationError> of SimulationDetails::gas_estimate
GasOk(g) == [tag |-> "Ok", gas |-> g]
GasErr == [tag |-> "Err", gas |-> NoGas]
GasNone == [tag |-> "None", gas |-> NoGas]

\* no on_auction_won call yet
WonIdle ==
    [pc |-> "idle", summary |-> 0, revealed |-> "", settlement |-> NoSettlement,
     revealCalls |-> 0, revealArg |-> 0, gasCalls |-> 0, gasPriced |-> "",
     simCalls |-> 0, simArg |-> NoSettlement, simulated |-> GasNone,
     submitCalls |-> 0,
     submitArg |-> [settlement |-> NoSettlement, gas_estimate |-> GasNone],
     receipt |-> NoHash, result |-> WonNoResult]

\* ------------------------------------------------- auction store: the data

Writers == 1..NumWriters
Auctions == {"auction A", "auction B"}

\* serde_json::to_value(&auction) and serde_json::from_value(json)
ToJson(auction) == <<"json", auction>>
FromJson(json) == json[2]

NoRow == [id |-> 0, json |-> <<>>]
NoReply == [tag |-> "none", id |-> 0, at |-> "none"]
ReplaceOk(id) == [tag |-> "Ok", id |-> id, at |-> "none"]
ReplaceErr(step) == [tag |-> "Err", id |-> 0, at |-> step]

\* a connection with no transaction open
TxnIdle == [pc |-> "idle", data |-> <<>>, deleted |-> {},
            inserted |-> NoRow, result |-> NoReply]

NeverRead == [tag |-> "none", auction |-> "none", commits |-> 0, during |-> {}]

\* SELECT ... ORDER BY id DESC LIMIT 1 over the rows a statement sees
load_most_recent(rows) ==
    IF rows = {} THEN NoRow
    ELSE CHOOSE r \in rows : \A q \in rows : q.id <= r.id

\* what a reader is given from a set of committed rows
Observable(rows) ==
    IF rows = {} THEN "none" ELSE FromJson(load_most_recent(rows).json)

\* ---------------------------------------- solver competition: data and JSON

\* f64 values: finite ones, the infinities and NaN
Finite(v) == [kind |-> "finite", v |-> v]
PosInf == [kind |-> "inf", v |-> 0]
NaN == [kind |-> "nan", v |-> 0]
F64s == {Finite(1), Finite(3), PosInf, NaN}

\* [b; n]: n bytes b
Fixed(b, n) == [i \in 1..n |-> b]
H160s == {Fixed(17, H160Len), Fixed(34, H160Len)}
H256s == {Fixed(17, H256Len), Fixed(5, H256Len)}
OrderUids == {Fixed(51, OrderUidLen)}

\* Option<H256>
NoneHash == [some |-> FALSE, h |-> <<>>]
SomeHash(h) == [some |-> TRUE, h |-> h]

\* byte sequences compared as BTreeMap<H160, _> and as JSON key strings do
RECURSIVE BytesLess(_, _)
BytesLess(a, b) ==
    IF b = <<>> THEN FALSE
    ELSE IF a = <<>> THEN TRUE
    ELSE IF Head(a) # Head(b) THEN Head(a) < Head(b)
    ELSE BytesLess(Tail(a), Tail(b))

\* the keys of a BTreeMap in the order its iteration yields them
RECURSIVE SortedKeys(_)
SortedKeys(keys) ==
    IF keys = {} THEN <<>>
    ELSE LET k == CHOOSE k \in keys : \A o \in keys \ {k} : BytesLess(k, o)
         IN <<k>> \o SortedKeys(keys \ {k})

\* hex and decimal strings, one character per element
HexDigits == <<"0", "1", "2", "3", "4", "5", "6", "7",
               "8", "9", "a", "b", "c", "d", "e", "f">>
DecDigits == <<"0", "1", "2", "3", "4", "5", "6", "7", "8", "9">>

RECURSIVE HexEncode(_)
HexEncode(bytes) ==
    IF bytes = <<>> THEN <<>>
    ELSE <<HexDigits[(Head(bytes) \div 16) + 1], HexDigits[(Head(bytes) % 16) + 1]>>
         \o HexEncode(Tail(bytes))

\* bytes as 0x-hex
Hex0x(bytes) == <<"0", "x">> \o HexEncode(bytes)

IsHexDigit(c) == \E i \in 1..16 : HexDigits[i] = c
HexValue(c) == (CHOOSE i \in 1..16 : HexDigits[i] = c) - 1

RECURSIVE HexDecode(_)
HexDecode(chars) ==
    IF chars = <<>> THEN <<>>
    ELSE <<HexValue(chars[1]) * 16 + HexValue(chars[2])>> \o HexDecode(SubSeq(chars, 3, Len(chars)))

IsHex0x(chars) ==
    /\ Len(chars) >= 2
    /\ chars[1] = "0"
    /\ chars[2] = "x"
    /\ Len(chars) % 2 = 0
    /\ \A i \in 3..Len(chars) : IsHexDigit(chars[i])

FromHex0x(chars) == HexDecode(SubSeq(chars, 3, Len(chars)))

\* U256 as decimal string
RECURSIVE DecimalEncode(_)
DecimalEncode(n) ==
    IF n < 10 THEN <<DecDigits[n + 1]>>
    ELSE DecimalEncode(n \div 10) \o <<DecDigits[(n % 10) + 1]>>

IsDecimal(chars) ==
    /\ Len(chars) >= 1
    /\ \A i \in 1..Len(chars) : \E d \in 1..10 : DecDigits[d] = chars[i]

RECURSIVE DecimalDecode(_)
DecimalDecode(chars) ==
    IF chars = <<>> THEN 0
    ELSE DecimalDecode(SubSeq(chars, 1, Len(chars) - 1)) * 10
         + (CHOOSE d \in 1..10 : DecDigits[d] = chars[Len(chars)]) - 1

\* JSON values (serde_json::Value)
JNull == [j |-> "null", v |-> <<>>]
JInt(n) == [j |-> "int", v |-> <<n>>]
JFloat(x) == [j |-> "float", v |-> <<x>>]
JString(chars) == [j |-> "string", v |-> chars]
JArray(items) == [j |-> "array", v |-> items]
JObject(pairs) == [j |-> "object", v |-> pairs]

\* a field name is its words: auction_id is <<"auction", "id">>
Capitalize(word) ==
    CASE word = "id" -> "Id"
      [] word = "price" -> "Price"
      [] word = "prices" -> "Prices"
      [] word = "start" -> "Start"
      [] word = "block" -> "Block"
      [] word = "collected" -> "Collected"
      [] word = "simulation" -> "Simulation"
      [] word = "hash" -> "Hash"
      [] word = "amount" -> "Amount"
      [] word = "data" -> "Data"
      [] OTHER -> word

\* #[serde(rename_all = "camelCase")]
CamelCase(words) ==
    [i \in 1..Len(words) |-> IF i = 1 THEN words[1] ELSE Capitalize(words[i])]

\* serde_json::to_value of an f64: a number when finite, null otherwise
F64ToJson(x) == IF x.kind = "finite" THEN JFloat(x.v) ELSE JNull

\* #[serde_as(as = "BTreeMap<_, DecimalU256>")]: keys in the map's order
PricesToJson(prices) ==
    LET keys == SortedKeys(DOMAIN prices)
    IN JObject([i \in 1..Len(keys) |->
                   <<Hex0x(keys[i]), JString(DecimalEncode(prices[keys[i]]))>>])

OrderToJson(o) ==
    JObject(<< <<CamelCase(<<"id">>), JString(Hex0x(o.id))>>,
               <<CamelCase(<<"executed", "amount">>),
                 JString(DecimalEncode(o.executed_amount))>> >>)

ObjectiveToJson(o) ==
    JObject(<< <<CamelCase(<<"total">>), F64ToJson(o.total)>>,
               <<CamelCase(<<"surplus">>), F64ToJson(o.surplus)>>,
               <<CamelCase(<<"fees">>), F64ToJson(o.fees)>>,
               <<CamelCase(<<"cost">>), F64ToJson(o.cost)>>,
               <<CamelCase(<<"gas">>), JInt(o.gas)>> >>)

SolverSettlementToJson(s) ==
    JObject(<< <<CamelCase(<<"solver">>), JString(s.solver)>>,
               <<CamelCase(<<"objective">>), ObjectiveToJson(s.objective)>>,
               <<CamelCase(<<"clearing", "prices">>), PricesToJson(s.clearing_prices)>>,
               <<CamelCase(<<"orders">>),
                 JArray([i \in 1..Len(s.orders) |-> OrderToJson(s.orders[i])])>>,
               <<CamelCase(<<"call", "data">>), JString(Hex0x(s.call_data))>> >>)

CompetitionAuctionToJson(a) ==
    JObject(<< <<CamelCase(<<"orders">>),
                 JArray([i \in 1..Len(a.orders) |-> JString(Hex0x(a.orders[i]))])>>,
               <<CamelCase(<<"prices">>), PricesToJson(a.prices)>> >>)

\* serde_json::to_value(&data) of a SolverCompetition
Serialize(r) ==
    JObject(<< <<CamelCase(<<"auction", "id">>), JInt(r.auction_id)>>,
               <<CamelCase(<<"gas", "price">>), F64ToJson(r.gas_price)>>,
               <<CamelCase(<<"auction", "start", "block">>), JInt(r.auction_start_block)>>,
               <<CamelCase(<<"liquidity", "collected", "block">>),
                 JInt(r.liquidity_collected_block)>>,
               <<CamelCase(<<"competition", "simulation", "block">>),
                 JInt(r.competition_simulation_block)>>,
               <<CamelCase(<<"transaction", "hash">>),
                 IF r.transaction_hash.some
                 THEN JString(Hex0x(r.transaction_hash.h)) ELSE JNull>>,
               <<CamelCase(<<"auction">>), CompetitionAuctionToJson(r.auction)>>,
               <<CamelCase(<<"solutions">>),
                 JArray([i \in 1..Len(r.solutions) |->
                            SolverSettlementToJson(r.solutions[i])])>> >>)

\* deserialisation: the value of a key of an object, JNull when the key is absent
HasKey(obj, key) == \E i \in 1..Len(obj.v) : obj.v[i][1] = key

\* what a lookup gives for a key the object does not have
JAbsent == [j |-> "absent", v |-> <<>>]

Field(obj, words) ==
    LET key == CamelCase(words)
    IN IF HasKey(obj, key)
       THEN obj.v[CHOOSE i \in 1..Len(obj.v) : obj.v[i][1] = key][2]
       ELSE JAbsent

\* the derived Deserialize of a struct of n fields reads an object by its keys
\* (visit_map) and an array of exactly n values by position (visit_seq)
StructShape(j, n) == j.j = "object" \/ (j.j = "array" /\ Len(j.v) = n)

\* the value of the field that is declared at position pos under the name words
Member(j, pos, words) ==
    IF j.j = "array"
    THEN IF pos <= Len(j.v) THEN j.v[pos] ELSE JAbsent
    ELSE Field(j, words)

\* an f64 is read from a number only
F64Ok(j) == j.j \in {"float", "int"}
F64From(j) == Finite(j.v[1])
U64Ok(j) == j.j = "int" /\ j.v[1] >= 0
BytesOk(j, n) == j.j = "string" /\ IsHex0x(j.v) /\ Len(j.v) = 2 + 2 * n
AnyBytesOk(j) == j.j = "string" /\ IsHex0x(j.v)
U256Ok(j) == j.j = "string" /\ IsDecimal(j.v)

PricesOk(j) ==
    /\ j.j = "object"
    /\ \A i \in 1..Len(j.v) :
        /\ IsHex0x(j.v[i][1]) /\ Len(j.v[i][1]) = 2 + 2 * H160Len
        /\ U256Ok(j.v[i][2])
PricesFrom(j) ==
    [k \in {FromHex0x(j.v[i][1]) : i \in 1..Len(j.v)} |->
        DecimalDecode(j.v[CHOOSE i \in 1..Len(j.v) : FromHex0x(j.v[i][1]) = k][2].v)]

OrderOk(j) ==
    /\ StructShape(j, 2)
    /\ BytesOk(Member(j, 1, <<"id">>), OrderUidLen)
    /\ U256Ok(Member(j, 2, <<"executed", "amount">>))
OrderFrom(j) ==
    [id |-> FromHex0x(Member(j, 1, <<"id">>).v),
     executed_amount |-> DecimalDecode(Member(j, 2, <<"executed", "amount">>).v)]

ObjectiveOk(j) ==
    /\ StructShape(j, 5)
    /\ F64Ok(Member(j, 1, <<"total">>))
    /\ F64Ok(Member(j, 2, <<"surplus">>))
    /\ F64Ok(Member(j, 3, <<"fees">>))
    /\ F64Ok(Member(j, 4, <<"cost">>))
    /\ U64Ok(Member(j, 5, <<"gas">>))
ObjectiveFrom(j) ==
    [total |-> F64From(Member(j, 1, <<"total">>)),
     surplus |-> F64From(Member(j, 2, <<"surplus">>)),
     fees |-> F64From(Member(j, 3, <<"fees">>)),
     cost |-> F64From(Member(j, 4, <<"cost">>)),
     gas |-> Member(j, 5, <<"gas">>).v[1]]

SolverSettlementOk(j) ==
    /\ StructShape(j, 5)
    /\ Member(j, 1, <<"solver">>).j = "string"
    /\ ObjectiveOk(Member(j, 2, <<"objective">>))
    /\ PricesOk(Member(j, 3, <<"clearing", "prices">>))
    /\ Member(j, 4, <<"orders">>).j = "array"
    /\ \A i \in 1..Len(Member(j, 4, <<"orders">>).v) :
        OrderOk(Member(j, 4, <<"orders">>).v[i])
    /\ AnyBytesOk(Member(j, 5, <<"call", "data">>))
SolverSettlementFrom(j) ==
    [solver |-> Member(j, 1, <<"solver">>).v,
     objective |-> ObjectiveFrom(Member(j, 2, <<"objective">>)),
     clearing_prices |-> PricesFrom(Member(j, 3, <<"clearing", "prices">>)),
     orders |-> [i \in 1..Len(Member(j, 4, <<"orders">>).v) |->
                    OrderFrom(Member(j, 4, <<"orders">>).v[i])],
     call_data |-> FromHex0x(Member(j, 5, <<"call", "data">>).v)]

CompetitionAuctionOk(j) ==
    /\ StructShape(j, 2)
    /\ Member(j, 1, <<"orders">>).j = "array"
    /\ \A i \in 1..Len(Member(j, 1, <<"orders">>).v) :
        BytesOk(Member(j, 1, <<"orders">>).v[i], OrderUidLen)
    /\ PricesOk(Member(j, 2, <<"prices">>))
CompetitionAuctionFrom(j) ==
    [orders |-> [i \in 1..Len(Member(j, 1, <<"orders">>).v) |->
                    FromHex0x(Member(j, 1, <<"orders">>).v[i].v)],
     prices |-> PricesFrom(Member(j, 2, <<"prices">>))]

\* serde_json::from_value succeeds: auction_id may be left out (#[serde(default)])
\* but not be null; transaction_hash may be left out or be null
DeserializeOk(j) ==
    /\ StructShape(j, 8)
    /\ Member(j, 1, <<"auction", "id">>).j \in {"int", "absent"}
    /\ F64Ok(Member(j, 2, <<"gas", "price">>))
    /\ U64Ok(Member(j, 3, <<"auction", "start", "block">>))
    /\ U64Ok(Member(j, 4, <<"liquidity", "collected", "block">>))
    /\ U64Ok(Member(j, 5, <<"competition", "simulation", "block">>))
    /\ \/ Member(j, 6, <<"transaction", "hash">>).j \in {"null", "absent"}
       \/ BytesOk(Member(j, 6, <<"transaction", "hash">>), H256Len)
    /\ CompetitionAuctionOk(Member(j, 7, <<"auction">>))
    /\ Member(j, 8, <<"solutions">>).j = "array"
    /\ \A i \in 1..Len(Member(j, 8, <<"solutions">>).v) :
        SolverSettlementOk(Member(j, 8, <<"solutions">>).v[i])

\* the SolverCompetition that serde_json::from_value builds
Deserialize(j) ==
    [auction_id |-> IF Member(j, 1, <<"auction", "id">>).j = "int"
                    THEN Member(j, 1, <<"auction", "id">>).v[1] ELSE 0,
     gas_price |-> F64From(Member(j, 2, <<"gas", "price">>)),
     auction_start_block |-> Member(j, 3, <<"auction", "start", "block">>).v[1],
     liquidity_collected_block |->
         Member(j, 4, <<"liquidity", "collected", "block">>).v[1],
     competition_simulation_block |->
         Member(j, 5, <<"competition", "simulation", "block">>).v[1],
     transaction_hash |->
         IF Member(j, 6, <<"transaction", "hash">>).j \in {"null", "absent"}
         THEN NoneHash
         ELSE SomeHash(FromHex0x(Member(j, 6, <<"transaction", "hash">>).v)),
     auction |-> CompetitionAuctionFrom(Member(j, 7, <<"auction">>)),
     solutions |-> [i \in 1..Len(Member(j, 8, <<"solutions">>).v) |->
                       SolverSettlementFrom(Member(j, 8, <<"solutions">>).v[i])]]

\* the f64 fields of a record
Floats(r) ==
    {r.gas_price} \cup
    UNION {{r.solutions[i].objective.total, r.solutions[i].objective.surplus,
            r.solutions[i].objective.fees, r.solutions[i].objective.cost} :
           i \in 1..Len(r.solutions)}

\* #[derive(PartialEq)]: field by field, and NaN equals nothing
PartialEq(a, b) == a = b /\ NaN \notin Floats(a)

\* the records saved and serialised
TheSettlement(total) ==
    [solver |-> <<"2">>,
     objective |-> [total |-> total, surplus |-> Finite(4), fees |-> Finite(5),
                    cost |-> Finite(6), gas |-> 7],
     clearing_prices |-> [k \in {Fixed(34, H160Len)} |-> 8],
     orders |-> <<[id |-> Fixed(51, OrderUidLen), executed_amount |-> 12]>>,
     call_data |-> <<19>>]

PriceMaps == UNION {[keys -> {1000, 255}] : keys \in SUBSET H160s}

SolverCompetitions ==
    {[auction_id |-> id,
      gas_price |-> g,
      auction_start_block |-> 13,
      liquidity_collected_block |-> 14,
      competition_simulation_block |-> 15,
      transaction_hash |-> h,
      auction |-> [orders |-> <<Fixed(51, OrderUidLen)>>, prices |-> p],
      solutions |-> s] :
        id \in 0..MaxAuctionId,
        g \in F64s,
        h \in {NoneHash} \cup {SomeHash(x) : x \in H256s},
        p \in PriceMaps,
        s \in {<<>>} \cup {<<TheSettlement(t)>> : t \in F64s}}

\* SolverCompetition::default()
DefaultCompetition ==
    [auction_id |-> 0,
     gas_price |-> Finite(0),
     auction_start_block |-> 0,
     liquidity_collected_block |-> 0,
     competition_simulation_block |-> 0,
     transaction_hash |-> NoneHash,
     auction |-> [orders |-> <<>>, prices |-> <<>>],
     solutions |-> <<>>]

NotDeserialized == [done |-> FALSE, ok |-> FALSE, value |-> DefaultCompetition]

\* the records the store is given: those of one auction and one price map
StoreRecords ==
    {r \in SolverCompetitions :
        /\ r.solutions = <<>>
        /\ DOMAIN r.auction.prices = {}
        /\ r.gas_price \in {Finite(1), PosInf}
        /\ r.transaction_hash \in {NoneHash, SomeHash(Fixed(17, H256Len))}}

\* Identifier
Id(i) == [kind |-> "Id", id |-> i, hash |-> <<>>]
Transaction(h) == [kind |-> "Transaction", id |-> 0, hash |-> h]
Identifiers == {Id(i) : i \in 0..MaxAuctionId} \cup {Transaction(h) : h \in H256s}

NoRowId == 0 - 1
NotSaved == [tag |-> "none", data |-> DefaultCompetition]
NotLoaded == [tag |-> "none", ident |-> Id(0), value |-> DefaultCompetition,
              rowId |-> NoRowId, infra |-> FALSE, saves |-> 0]

\* ------------------------------------------------- order materialiser: data

U256Max == 2 ^ U256Bits - 1
U32Max == 2 ^ U32Bits - 1

\* BigDecimal values: num / den
Dec(num, den) == [num |-> num, den |-> den]
DecSub(a, b) == Dec(a.num * b.den - b.num * a.den, a.den * b.den)
IsInteger(d) == d.num % d.den = 0
DecEq(a, b) == a.num * b.den = b.num * a.den
Decimals == {Dec(n, 1) : n \in (0 - 1)..(U256Max + 1)} \cup {Dec(1, 2)}

NoU256 == [some |-> FALSE, v |-> 0]
SomeU256(v) == [some |-> TRUE, v |-> v]

\* number_conversions::big_decimal_to_u256: an integer in 0..U256Max, or None
big_decimal_to_u256(d) ==
    IF IsInteger(d) /\ d.num \div d.den >= 0 /\ d.num \div d.den <= U256Max
    THEN SomeU256(d.num \div d.den)
    ELSE NoU256

order_kind_from(kind) ==
    CASE kind = "DbOrderKind::Buy" -> "OrderKind::Buy"
      [] kind = "DbOrderKind::Sell" -> "OrderKind::Sell"

sell_token_source_from(source) ==
    CASE source = "DbSellTokenSource::Erc20" -> "SellTokenSource::Erc20"
      [] source = "DbSellTokenSource::Internal" -> "SellTokenSource::Internal"
      [] source = "DbSellTokenSource::External" -> "SellTokenSource::External"

buy_token_destination_from(destination) ==
    CASE destination = "DbBuyTokenDestination::Erc20" -> "BuyTokenDestination::Erc20"
      [] destination = "DbBuyTokenDestination::Internal" -> "BuyTokenDestination::Internal"

\* (two stored schemes given the same domain scheme)
signing_scheme_from_Collapsed(scheme) ==
    CASE scheme = "DbSigningScheme::Eip712" -> "SigningScheme::Eip712"
      [] scheme = "DbSigningScheme::EthSign" -> "SigningScheme::Eip712"
      [] scheme = "DbSigningScheme::Eip1271" -> "SigningScheme::Eip1271"
      [] scheme = "DbSigningScheme::PreSign" -> "SigningScheme::PreSign"

signing_scheme_from(scheme) ==
    CASE scheme = "DbSigningScheme::Eip712" -> "SigningScheme::Eip712"
      [] scheme = "DbSigningScheme::EthSign" -> "SigningScheme::EthSign"
      [] scheme = "DbSigningScheme::Eip1271" -> "SigningScheme::Eip1271"
      [] scheme = "DbSigningScheme::PreSign" -> "SigningScheme::PreSign"

DbOrderKinds == {"DbOrderKind::Buy", "DbOrderKind::Sell"}
DbSellTokenSources == {"DbSellTokenSource::Erc20", "DbSellTokenSource::Internal",
                       "DbSellTokenSource::External"}
DbBuyTokenDestinations == {"DbBuyTokenDestination::Erc20",
                           "DbBuyTokenDestination::Internal"}
DbSigningSchemes == {"DbSigningScheme::Eip712", "DbSigningScheme::EthSign",
                     "DbSigningScheme::Eip1271", "DbSigningScheme::PreSign"}

OrderKinds == {"OrderKind::Buy", "OrderKind::Sell"}
SellTokenSources == {"SellTokenSource::Erc20", "SellTokenSource::Internal",
                     "SellTokenSource::External"}
BuyTokenDestinations == {"BuyTokenDestination::Erc20", "BuyTokenDestination::Internal"}
SigningSchemes == {"SigningScheme::Eip712", "SigningScheme::EthSign",
                   "SigningScheme::Eip1271", "SigningScheme::PreSign"}

\* a stored row whose every field materialises
GoodRow ==
    [kind |-> "DbOrderKind::Sell",
     sum_buy |-> Dec(1, 1), sum_sell |-> Dec(2, 1), sum_fee |-> Dec(1, 1),
     full_fee_amount |-> Dec(1, 1), sell_amount |-> Dec(2, 1),
     buy_amount |-> Dec(1, 1), fee_amount |-> Dec(1, 1), valid_to |-> 1,
     sell_token_balance |-> "DbSellTokenSource::Erc20",
     buy_token_balance |-> "DbBuyTokenDestination::Erc20",
     signing_scheme |-> "DbSigningScheme::Eip712",
     signature_valid |-> TRUE,
     partially_fillable |-> FALSE, is_liquidity_order |-> FALSE]

\* the rows given: every kind and sums, every amount field and valid_to, every enum
FullOrders ==
    {[GoodRow EXCEPT !.kind = k, !.sum_buy = b, !.sum_sell = s, !.sum_fee = f] :
        k \in DbOrderKinds, b \in Decimals, s \in Decimals, f \in Decimals}
    \cup
    {[GoodRow EXCEPT !.full_fee_amount = a1, !.sell_amount = a2, !.buy_amount = a3,
                     !.fee_amount = a4, !.valid_to = v] :
        a1 \in {Dec(1, 1), Dec(U256Max + 1, 1)},
        a2 \in {Dec(2, 1), Dec(0 - 1, 1)},
        a3 \in {Dec(U256Max, 1), Dec(1, 2)},
        a4 \in {Dec(0, 1), Dec(U256Max + 1, 1)},
        v \in {0 - 1, 0, U32Max, U32Max + 1}}
    \cup
    {[GoodRow EXCEPT !.kind = k, !.sell_token_balance = s, !.buy_token_balance = b,
                     !.signing_scheme = g, !.signature_valid = ok,
                     !.partially_fillable = ok, !.is_liquidity_order = ~ok] :
        k \in DbOrderKinds, s \in DbSellTokenSources, b \in DbBuyTokenDestinations,
        g \in DbSigningSchemes, ok \in BOOLEAN}

MaterialiseErr(e) == [tag |-> "Err", err |-> e, order |-> <<>>]
MaterialiseOk(order) == [tag |-> "Ok", err |-> "", order |-> order]
NotMaterialised == [tag |-> "none", err |-> "", order |-> <<>>]

\* (a subtraction that stops at zero)
ExecutedDecimal_Saturating(order) ==
    IF order.kind = "DbOrderKind::Buy" THEN order.sum_buy
    ELSE IF DecSub(order.sum_sell, order.sum_fee).num < 0 THEN Dec(0, 1)
    ELSE DecSub(order.sum_sell, order.sum_fee)

\* match order.kind { Buy => sum_buy, Sell => sum_sell - sum_fee }
ExecutedDecimal(order) ==
    IF order.kind = "DbOrderKind::Buy" THEN order.sum_buy
    ELSE DecSub(order.sum_sell, order.sum_fee)

\* Signature::from_bytes(signing_scheme, &order.signature)
SignatureFromBytes(scheme, valid) ==
    IF valid THEN [ok |-> TRUE, scheme |-> scheme] ELSE [ok |-> FALSE, scheme |-> scheme]

\* (a cast that keeps the low bits)
valid_to_try_into_Wrapping(v) == SomeU256(v % (U32Max + 1))

\* order.valid_to.try_into(): the same number as a u32, or an error
valid_to_try_into(v) == IF v >= 0 /\ v <= U32Max THEN SomeU256(v) ELSE NoU256

\* full_order_into_model_order: the fields in the order they are evaluated
full_order_into_model_order(order) ==
    LET executed_amount == big_decimal_to_u256(ExecutedDecimal(order))
        full_fee_amount == big_decimal_to_u256(order.full_fee_amount)
        sell_amount == big_decimal_to_u256(order.sell_amount)
        buy_amount == big_decimal_to_u256(order.buy_amount)
        valid_to == valid_to_try_into(order.valid_to)
        fee_amount == big_decimal_to_u256(order.fee_amount)
        signature == SignatureFromBytes(signing_scheme_from(order.signing_scheme),
                                        order.signature_valid)
    IN IF ~executed_amount.some
       THEN MaterialiseErr("executed_amount does not fit into u256")
       ELSE IF ~full_fee_amount.some THEN MaterialiseErr("full_fee_amount is not U256")
       ELSE IF ~sell_amount.some THEN MaterialiseErr("sell_amount is not U256")
       ELSE IF ~buy_amount.some THEN MaterialiseErr("buy_amount is not U256")
       ELSE IF ~valid_to.some THEN MaterialiseErr("valid_to is not u32")
       ELSE IF ~fee_amount.some THEN MaterialiseErr("fee_amount is not U256")
       ELSE IF ~signature.ok THEN MaterialiseErr("signature")
       ELSE MaterialiseOk(
            [metadata |-> [executed_amount |-> executed_amount.v,
                           full_fee_amount |-> full_fee_amount.v,
                           is_liquidity_order |-> order.is_liquidity_order],
             data |-> [sell_amount |-> sell_amount.v,
                       buy_amount |-> buy_amount.v,
                       valid_to |-> valid_to.v,
                       fee_amount |-> fee_amount.v,
                       kind |-> order_kind_from(order.kind),
                       partially_fillable |-> order.partially_fillable,
                       sell_token_balance |-> sell_token_source_from(order.sell_token_balance),
                       buy_token_balance |->
                           buy_token_destination_from(order.buy_token_balance)],
             signature |-> signature])

\* ------------------------------------------ deployed contract constants: data

\* the hex text contains the hex text: str::contains
Contains(haystack, needle) ==
    \E i \in 0..(Len(haystack) - Len(needle)) :
        SubSeq(haystack, i + 1, i + Len(needle)) = needle

ChainIds == {1, 5}

\* DomainSeparator::new(chain_id, address): 32 bytes, different for different
\* chain ids and addresses
DomainSeparatorNew(chain_id, address) == Fixed(chain_id * 16 + address[1], H256Len)

\* model::order::OrderData::TYPE_HASH
TYPE_HASH ==
    <<213, 162, 91, 162, 233, 112, 148, 173, 125, 131, 220, 40, 166, 87, 45, 167, 151, 214, 179, 231, 252, 102, 99, 189, 147, 239, 183, 137, 252, 23, 228, 137>>

\* bytes whose hex text is that of the given bytes moved by one digit
ShiftNibble(bytes) == HexDecode(<<"0">> \o HexEncode(bytes) \o <<"0">>)

\* the pieces deployed code is made of here
CodePieces ==
    {DomainSeparatorNew(c, a) : c \in ChainIds, a \in H160s}
    \cup {TYPE_HASH, ShiftNibble(TYPE_HASH), <<96, 128>>}

RECURSIVE CodesOf(_)
CodesOf(n) ==
    IF n = 0 THEN {<<>>}
    ELSE CodesOf(n - 1) \cup {c \o piece : c \in CodesOf(n - 1), piece \in CodePieces}

\* web3.eth().code(address): the bytes, or an error
CodeOk(bytes) == [ok |-> TRUE, bytes |-> bytes]
CodeErr == [ok |-> FALSE, bytes |-> <<>>]
CodeResults == {CodeOk(b) : b \in CodesOf(MaxPieces)} \cup {CodeErr}

VerifyOk == [tag |-> "Ok", err |-> ""]
VerifyErr(e) == [tag |-> "Err", err |-> e]

\* verify_deployed_contract_constants
verify_deployed_contract_constants(chain_id, address, code) ==
    IF ~code.ok THEN VerifyErr("Could not load deployed bytecode")
    ELSE LET bytecode == HexEncode(code.bytes)
             domain_separator == DomainSeparatorNew(chain_id, address)
         IN IF ~Contains(bytecode, HexEncode(domain_separator))
            THEN VerifyErr("Bytecode did not contain domain separator")
            ELSE IF ~Contains(bytecode, HexEncode(TYPE_HASH))
            THEN VerifyErr("Bytecode did not contain order type hash")
            ELSE VerifyOk

\* ------------------------------------------------ volume filtering: data

Tokens == {"sell_token", "buy_token"}
NoPrice == Dec(0, 0)

\* ExternalPrices: the price of a token in the native token, or none
ExternalPricesSet ==
    {[t \in Tokens |-> Dec(1, 1)],
     [t \in Tokens |-> IF t = "sell_token" THEN Dec(1, 2) ELSE Dec(2, 1)],
     [t \in Tokens |-> IF t = "sell_token" THEN Dec(1, 1) ELSE NoPrice],
     [t \in Tokens |-> IF t = "buy_token" THEN Dec(1, 1) ELSE NoPrice],
     [t \in Tokens |-> NoPrice]}

\* LimitOrder: the fields filter_orders reads, and an id telling orders apart
LimitOrder(id, sell_amount, buy_amount) ==
    [id |-> id, sell_token |-> "sell_token", buy_token |-> "buy_token",
     sell_amount |-> sell_amount, buy_amount |-> buy_amount]
LimitOrders ==
    {LimitOrder(1, 4, 0), LimitOrder(2, 1, 0), LimitOrder(3, 0, 4), LimitOrder(4, 1, 1),
     LimitOrder(5, 2, 0),
     [LimitOrder(6, 4, 4) EXCEPT !.sell_token = "buy_token", !.buy_token = "sell_token"]}

RECURSIVE OrderLists(_)
OrderLists(n) ==
    IF n = 0 THEN {<<>>}
    ELSE OrderLists(n - 1)
         \cup {Append(l, o) : l \in {m \in OrderLists(n - 1) : Len(m) = n - 1},
                               o \in LimitOrders}

\* min_value given to SellVolumeFilteringSolver::new
MinValues == {0, 2}

Panicked == [panic |-> TRUE, value |-> <<>>]
Returned(v) == [panic |-> FALSE, value |-> v]

\* external_prices.get_native_amount(token, amount): amount * price, or a
\* panic when the token has no price
get_native_amount(external_prices, token, amount) ==
    IF external_prices[token] = NoPrice THEN Panicked
    ELSE Returned(Dec(amount * external_prices[token].num, external_prices[token].den))

\* (a threshold that must be exceeded)
is_minimum_volume_Strict(external_prices, min_value, token, amount) ==
    LET native_amount == get_native_amount(external_prices, token, amount)
    IN IF native_amount.panic THEN Panicked
       ELSE Returned(native_amount.value.num > min_value * native_amount.value.den)

\* the closure is_minimum_volume: native_amount >= self.min_value
is_minimum_volume(external_prices, min_value, token, amount) ==
    LET native_amount == get_native_amount(external_prices, token, amount)
    IN IF native_amount.panic THEN Panicked
       ELSE Returned(native_amount.value.num >= min_value * native_amount.value.den)

\* the closure given to retain: the buy side, and the sell side only when the
\* buy side is below the minimum
Retained(external_prices, min_value, order) ==
    LET buy == is_minimum_volume(external_prices, min_value,
                                 order.buy_token, order.buy_amount)
    IN IF buy.panic THEN Panicked
       ELSE IF buy.value THEN Returned(TRUE)
       ELSE is_minimum_volume(external_prices, min_value,
                              order.sell_token, order.sell_amount)

\* orders.retain(..): the orders are visited front to back
RECURSIVE Retain(_, _, _)
Retain(external_prices, min_value, orders) ==
    IF orders = <<>> THEN Returned(<<>>)
    ELSE LET keep == Retained(external_prices, min_value, Head(orders))
         IN IF keep.panic THEN Panicked
            ELSE LET rest == Retain(external_prices, min_value, Tail(orders))
                 IN IF rest.panic THEN Panicked
                    ELSE Returned((IF keep.value THEN <<Head(orders)>> ELSE <<>>)
                                  \o rest.value)

\* SellVolumeFilteringSolver::filter_orders
filter_orders(min_value, orders, external_prices) ==
    Retain(external_prices, min_value, orders)

\* ------------------------------------------------- solvable orders: data

\* an item of the stream database::orders::solvable_orders: a row or an error
RowOk(row) == [ok |-> TRUE, row |-> row]
RowErr == [ok |-> FALSE, row |-> <<>>]
RowResults ==
    {RowOk(GoodRow), RowOk([GoodRow EXCEPT !.kind = "DbOrderKind::Buy"]),
     RowOk([GoodRow EXCEPT !.valid_to = U32Max + 1]),
     RowOk([GoodRow EXCEPT !.signature_valid = FALSE]),
     RowErr}

RECURSIVE RowLists(_)
RowLists(n) ==
    IF n = 0 THEN {<<>>}
    ELSE RowLists(n - 1)
         \cup {Append(l, r) : l \in {m \in RowLists(n - 1) : Len(m) = n - 1},
                               r \in RowResults}

\* database::orders::latest_settlement_block: a block number or an error
BlockOk(n) == [ok |-> TRUE, n |-> n]
BlockErr == [ok |-> FALSE, n |-> 0]
BlockResults == {BlockOk(0), BlockOk(7), BlockErr}

SolvableErr(e) == [tag |-> "Err", err |-> e, orders |-> <<>>, latest_settlement_block |-> 0]
SolvableOk(orders, block) ==
    [tag |-> "Ok", err |-> "", orders |-> orders, latest_settlement_block |-> block]

\* the closure given to map: a row is materialised, an error is passed on
MapRow(result) ==
    IF result.ok THEN full_order_into_model_order(result.row)
    ELSE MaterialiseErr("query")

\* (a collect that leaves out the rows that failed)
RECURSIVE TryCollect_SkipsErrors(_)
TryCollect_SkipsErrors(items) ==
    IF items = <<>> THEN SolvableOk(<<>>, 0)
    ELSE LET first == MapRow(Head(items))
             rest == TryCollect_SkipsErrors(Tail(items))
         IN IF first.tag = "Err" THEN rest
            ELSE SolvableOk(<<first.order>> \o rest.orders, 0)

\* .map(..).try_collect::<Vec<_>>(): the items are taken in order; the first
\* error ends the collection and is its result
RECURSIVE TryCollect(_)
TryCollect(items) ==
    IF items = <<>> THEN SolvableOk(<<>>, 0)
    ELSE LET first == MapRow(Head(items))
         IN IF first.tag = "Err" THEN SolvableErr(first.err)
            ELSE LET rest == TryCollect(Tail(items))
                 IN IF rest.tag = "Err" THEN rest
                    ELSE SolvableOk(<<first.order>> \o rest.orders, 0)

\* `as u64` of an i64: the value modulo 2^64, so a negative number wraps
AsU64(n) == n % (2 ^ U64Bits)

\* Postgres::solvable_orders
solvable_orders(beginOk, rows, latest) ==
    IF ~beginOk THEN SolvableErr("begin")
    ELSE LET orders == TryCollect(rows)
         IN IF orders.tag = "Err" THEN orders
            ELSE IF ~latest.ok THEN SolvableErr("latest_settlement_block")
            ELSE SolvableOk(orders.orders, AsU64(latest.n))

NotVerified == [tag |-> "none"]
NotFiltered == [tag |-> "none"]
NotSolvable == [tag |-> "none"]

\* ----------------------------------------------------------------- actions

Init ==
    /\ published \in {<<1>>, <<NoNumber>>}
    /\ senderAlive = TRUE
    /\ pc = "init"
    /\ rxSeen = 0
    /\ subscribedAt = 0
    /\ iters = <<>>
    /\ current_solution = NoResult
    /\ lastCompleted = 0
    /\ returned = NoResult
    /\ cause = "none"
    /\ won = WonIdle
    /\ clock = [now |-> 0, startedAt |-> 0, deadline |-> 0, returnedAt |-> 0,
                blocked |-> FALSE, heldPast |-> FALSE]
    /\ table = {}
    /\ nextId = 1
    /\ txn = [w \in Writers |-> TxnIdle]
    /\ history = <<>>
    /\ started = 0
    /\ lastRead = NeverRead
    /\ rec = DefaultCompetition
    /\ serialized = JNull
    /\ deserialized = NotDeserialized
    /\ competitions = {}
    /\ saved = <<>>
    /\ lastSave = NotSaved
    /\ lastLoad = NotLoaded
    /\ fullOrder = GoodRow
    /\ materialised = NotMaterialised
    /\ verified = NotVerified
    /\ filtered = NotFiltered
    /\ solvable = NotSolvable

\* tx.send(block): the chain head advances (to a block with or without a number).
Publish ==
    /\ senderAlive
    /\ Len(published) < MaxBlocks
    /\ \E b \in {Len(published) + 1, NoNumber} : published' = Append(published, b)
    /\ UNCHANGED <<senderAlive, pc, rxSeen, subscribedAt, iters, current_solution,
                   lastCompleted, returned, cause>>

\* drop(tx): all upstream producers stop.
DropSender ==
    /\ senderAlive
    /\ senderAlive' = FALSE
    /\ UNCHANGED <<published, pc, rxSeen, subscribedAt, iters, current_solution,
                   lastCompleted, returned, cause>>

\* solve_until_deadline is called: the stream and the timeout are created and
\* current_solution starts as the sentinel error.
Start ==
    /\ pc = "init"
    /\ pc' = "running"
    /\ rxSeen' = 0
    /\ subscribedAt' = Latest
    /\ current_solution' = Err(Sentinel)
    /\ UNCHANGED <<published, senderAlive, iters, lastCompleted, returned, cause>>

\* The stream yields the block of version v and compute_solution_for_block
\* starts on it: an invalid block completes the iteration at once with
\* "no block number", a valid one calls the converter.
BeginIteration(v) ==
    /\ ThenReady
    /\ StreamHasItem
    /\ rxSeen' = v
    /\ LET block == published[v]
           n == block_number(block)
           it == [ver |-> v, block |-> block, latestAtBegin |-> Latest,
                  aliveAtBegin |-> senderAlive,
                  stage |-> IF n.tag = "Ok" THEN "convert" ELSE "done",
                  convertCalled |-> n.tag = "Ok",
                  convertArg |-> IF n.tag = "Ok" THEN n.summary ELSE NoNumber,
                  commitCalled |-> FALSE, commitArg |-> NoNumber,
                  result |-> IF n.tag = "Ok" THEN NoResult ELSE n,
                  latestAtEnd |-> IF n.tag = "Ok" THEN 0 ELSE Latest,
                  aliveAtEnd |-> senderAlive]
       IN /\ iters' = Append(iters, it)
          /\ IF n.tag = "Ok"
             THEN UNCHANGED <<current_solution, lastCompleted>>
             ELSE /\ current_solution' = n
                  /\ lastCompleted' = Len(iters) + 1
    /\ UNCHANGED <<published, senderAlive, pc, subscribedAt, returned, cause>>

\* The loop polls the stream only while it runs.
NextBlockAt(v) == pc = "running" /\ BeginIteration(v)

\* (a stream that is still polled after the loop returned)
NextBlock_AfterReturn == pc \in {"running", "done"} /\ BeginIteration(Latest)

\* (a stream that queues every block and yields the oldest unseen one)
NextBlock_Queue == NextBlockAt(rxSeen + 1)

\* (a stream whose first item is the channel's initial value)
NextBlock_Replay == NextBlockAt(IF rxSeen = 0 THEN 1 ELSE Latest)

\* (an invalid block that is skipped without leaving a result)
NextBlock_SkipsInvalid ==
    IF published[Latest] = NoNumber
    THEN /\ pc = "running"
         /\ ThenReady
         /\ StreamHasItem
         /\ rxSeen' = Latest
         /\ UNCHANGED <<published, senderAlive, pc, subscribedAt, iters,
                        current_solution, lastCompleted, returned, cause>>
    ELSE NextBlockAt(Latest)

NextBlock == NextBlockAt(Latest)

\* The iteration i completes with result r, which select's first arm stores.
Complete(i, r) ==
    /\ iters' = [iters EXCEPT ![i].stage = "done", ![i].result = r,
                              ![i].latestAtEnd = Latest,
                              ![i].aliveAtEnd = senderAlive]
    /\ current_solution' = r
    /\ lastCompleted' = i

\* converter.convert_auction(auction, block) returns Ok(auction): commit is called with it.
ConvertOk ==
    /\ pc = "running"
    /\ \E i \in InFlight :
        /\ iters[i].stage = "convert"
        /\ iters' = [iters EXCEPT ![i].stage = "commit", ![i].commitCalled = TRUE,
                                  ![i].commitArg = iters[i].convertArg]
    /\ UNCHANGED <<published, senderAlive, pc, rxSeen, subscribedAt, current_solution,
                   lastCompleted, returned, cause>>

\* (a converter error that ends the loop instead of becoming the current result)
ConvertErr_Fatal ==
    /\ pc = "running"
    /\ \E i \in InFlight :
        /\ iters[i].stage = "convert"
        /\ Complete(i, Err(ConvertError))
    /\ pc' = "done"
    /\ returned' = Err(ConvertError)
    /\ cause' = "none"
    /\ UNCHANGED <<published, senderAlive, rxSeen, subscribedAt>>

\* (a converter error after which commit is still called)
ConvertErr_CommitsAnyway ==
    /\ pc = "running"
    /\ \E i \in InFlight :
        /\ iters[i].stage = "convert"
        /\ iters' = [iters EXCEPT ![i].stage = "done", ![i].result = Err(ConvertError),
                                  ![i].commitCalled = TRUE,
                                  ![i].commitArg = iters[i].convertArg,
                                  ![i].latestAtEnd = Latest,
                                  ![i].aliveAtEnd = senderAlive]
        /\ current_solution' = Err(ConvertError)
        /\ lastCompleted' = i
    /\ UNCHANGED <<published, senderAlive, pc, rxSeen, subscribedAt, returned, cause>>

\* converter.convert_auction(auction, block) returns an error: `?` ends the iteration.
ConvertErr ==
    /\ pc = "running"
    /\ \E i \in InFlight :
        /\ iters[i].stage = "convert"
        /\ Complete(i, Err(ConvertError))
    /\ UNCHANGED <<published, senderAlive, pc, rxSeen, subscribedAt, returned, cause>>

\* (a successful commit that is not stored)
CommitOk_NotRecorded ==
    /\ pc = "running"
    /\ \E i \in InFlight, s \in Summaries :
        /\ iters[i].stage = "commit"
        /\ iters' = [iters EXCEPT ![i].stage = "done", ![i].result = Ok(s),
                                  ![i].latestAtEnd = Latest,
                                  ![i].aliveAtEnd = senderAlive]
        /\ lastCompleted' = i
    /\ UNCHANGED <<published, senderAlive, pc, rxSeen, subscribedAt, current_solution,
                   returned, cause>>

\* (a successful commit that replaces an error but never an earlier summary)
CommitOk_KeepFirst ==
    /\ pc = "running"
    /\ \E i \in InFlight, s \in Summaries :
        /\ iters[i].stage = "commit"
        /\ iters' = [iters EXCEPT ![i].stage = "done", ![i].result = Ok(s),
                                  ![i].latestAtEnd = Latest,
                                  ![i].aliveAtEnd = senderAlive]
        /\ lastCompleted' = i
        /\ current_solution' = IF current_solution.tag = "Ok" THEN current_solution
                               ELSE Ok(s)
    /\ UNCHANGED <<published, senderAlive, pc, rxSeen, subscribedAt, returned, cause>>

\* solver.commit(auction) returns Ok(summary).
CommitOk ==
    /\ pc = "running"
    /\ \E i \in InFlight, s \in Summaries :
        /\ iters[i].stage = "commit"
        /\ Complete(i, Ok(s))
    /\ UNCHANGED <<published, senderAlive, pc, rxSeen, subscribedAt, returned, cause>>

\* (a commit error that is logged and not stored)
CommitErr_NotRecorded ==
    /\ pc = "running"
    /\ \E i \in InFlight :
        /\ iters[i].stage = "commit"
        /\ iters' = [iters EXCEPT ![i].stage = "done", ![i].result = Err(CommitError),
                                  ![i].latestAtEnd = Latest,
                                  ![i].aliveAtEnd = senderAlive]
        /\ lastCompleted' = i
    /\ UNCHANGED <<published, senderAlive, pc, rxSeen, subscribedAt, current_solution,
                   returned, cause>>

\* solver.commit(auction) returns an error.
CommitErr ==
    /\ pc = "running"
    /\ \E i \in InFlight :
        /\ iters[i].stage = "commit"
        /\ Complete(i, Err(CommitError))
    /\ UNCHANGED <<published, senderAlive, pc, rxSeen, subscribedAt, returned, cause>>

\* (a terminated stream that is polled again instead of ending the loop)
StreamEnd_Ignored ==
    /\ pc = "running"
    /\ ThenReady
    /\ StreamTerminated
    /\ UNCHANGED vars

\* (a terminated stream reported as a failure of the loop)
StreamEnd_ReturnsSentinel ==
    /\ pc = "running"
    /\ ThenReady
    /\ StreamTerminated
    /\ pc' = "done"
    /\ returned' = Err(Sentinel)
    /\ cause' = "stream_end"
    /\ UNCHANGED <<published, senderAlive, rxSeen, subscribedAt, iters,
                   current_solution, lastCompleted>>

\* compute_solutions.next() yields None: return current_solution.
StreamEnd ==
    /\ pc = "running"
    /\ ThenReady
    /\ StreamTerminated
    /\ pc' = "done"
    /\ returned' = current_solution
    /\ cause' = "stream_end"
    /\ UNCHANGED <<published, senderAlive, rxSeen, subscribedAt, iters,
                   current_solution, lastCompleted>>

\* The futures the return drops: a pending compute_solution_for_block never completes.
DropInFlight ==
    [i \in 1..Len(iters) |->
        IF i \in InFlight THEN [iters[i] EXCEPT !.stage = "dropped"] ELSE iters[i]]

\* (a timeout arm that always reports the sentinel)
Deadline_ReturnsSentinel ==
    /\ pc = "running"
    /\ pc' = "done"
    /\ returned' = Err(Sentinel)
    /\ cause' = "deadline"
    /\ iters' = DropInFlight
    /\ UNCHANGED <<published, senderAlive, rxSeen, subscribedAt, current_solution,
                   lastCompleted>>

\* (a timeout arm that lets the pending computation finish and returns its summary)
Deadline_AwaitsInFlight ==
    /\ pc = "running"
    /\ pc' = "done"
    /\ cause' = "deadline"
    /\ IF InFlight = {}
       THEN /\ returned' = current_solution
            /\ UNCHANGED <<iters, current_solution, lastCompleted>>
       ELSE \E i \in InFlight, s \in Summaries :
                /\ Complete(i, Ok(s))
                /\ returned' = Ok(s)
    /\ UNCHANGED <<published, senderAlive, rxSeen, subscribedAt>>

\* (a computation spawned as a task of its own, which the return does not drop)
Deadline_LeavesInFlight ==
    /\ pc = "running"
    /\ pc' = "done"
    /\ returned' = current_solution
    /\ cause' = "deadline"
    /\ UNCHANGED <<published, senderAlive, rxSeen, subscribedAt, iters,
                   current_solution, lastCompleted>>

\* (a deadline that is looked at between two iterations only)
Deadline_BetweenIterations ==
    /\ pc = "running"
    /\ InFlight = {}
    /\ pc' = "done"
    /\ returned' = current_solution
    /\ cause' = "deadline"
    /\ UNCHANGED <<published, senderAlive, rxSeen, subscribedAt, iters,
                   current_solution, lastCompleted>>

\* The timeout arm of select: return current_solution.
Deadline ==
    /\ pc = "running"
    /\ pc' = "done"
    /\ returned' = current_solution
    /\ cause' = "deadline"
    /\ iters' = DropInFlight
    /\ UNCHANGED <<published, senderAlive, rxSeen, subscribedAt, current_solution,
                   lastCompleted>>

\* ---------------------------------------------------------- on_auction_won

\* on_auction_won(summary) is called: it calls solver.reveal(&summary).
on_auction_won(s) ==
    /\ won.pc = "idle"
    /\ won' = [won EXCEPT !.pc = "reveal", !.summary = s,
                          !.revealCalls = @ + 1, !.revealArg = s]

\* on_auction_won returns r.
WonReturn(r) == won' = [won EXCEPT !.pc = "done", !.result = r]

\* solver.reveal returns an error: `?` returns it.
RevealErr ==
    /\ won.pc = "reveal"
    /\ won' = [won EXCEPT !.pc = "done", !.revealed = "Err",
                          !.result = WonErr(RevealError)]

\* (a declined execution on which the driver carries on with a default settlement)
RevealNone_CarriesOn ==
    /\ won.pc = "reveal"
    /\ won' = [won EXCEPT !.pc = "gas", !.revealed = "None",
                          !.settlement = "settlement A", !.gasCalls = @ + 1]

\* solver.reveal returns Ok(None): the solver declines, ExecutionRejected.
RevealNone ==
    /\ won.pc = "reveal"
    /\ won' = [won EXCEPT !.pc = "done", !.revealed = "None",
                          !.result = WonErr(ExecutionRejected)]

\* solver.reveal returns Ok(Some(settlement)): validate_settlement starts with
\* the gas price estimation.
RevealSome ==
    /\ won.pc = "reveal"
    /\ \E x \in Settlements :
        won' = [won EXCEPT !.pc = "gas", !.revealed = "Some", !.settlement = x,
                           !.gasCalls = @ + 1]

\* (a failed gas price estimation replaced by a default gas price)
GasPriceErr_Ignored ==
    /\ won.pc = "gas"
    /\ won' = [won EXCEPT !.pc = "simulate", !.gasPriced = "Err",
                          !.simCalls = @ + 1, !.simArg = won.settlement]

\* gas_price_estimator.estimate() returns an error: `?` returns it.
GasPriceErr ==
    /\ won.pc = "gas"
    /\ won' = [won EXCEPT !.pc = "done", !.gasPriced = "Err",
                          !.result = WonErr(GasPriceError)]

\* estimate() returns a gas price: simulate_settlements is called with the
\* one revealed settlement.
GasPriceOk ==
    /\ won.pc = "gas"
    /\ won' = [won EXCEPT !.pc = "simulate", !.gasPriced = "Ok",
                          !.simCalls = @ + 1, !.simArg = won.settlement]

\* simulate_settlements returns an error: `?` returns it.
SimulateErr ==
    /\ won.pc = "simulate"
    /\ WonReturn(WonErr(SimulateError))

\* simulate_settlements returns an empty vector: pop() is None.
SimulateEmpty ==
    /\ won.pc = "simulate"
    /\ WonReturn(WonErr(NoSimulationResults))

\* submit_settlement(simulation_details): the gas estimate is unwrapped
\* (expect panics on an error) and the submitter is called.
submit_settlement(details) ==
    IF details.gas_estimate.tag = "Ok"
    THEN won' = [won EXCEPT !.pc = "submit", !.simulated = details.gas_estimate,
                            !.submitCalls = @ + 1, !.submitArg = details]
    ELSE won' = [won EXCEPT !.pc = "panicked", !.simulated = details.gas_estimate]

\* (a validate_settlement that does not look at the gas estimate)
validate_settlement_NoCheck(details) == submit_settlement(details)

\* The end of validate_settlement on the simulation details: an error as gas
\* estimate returns "simulation failed", otherwise the details go on to
\* submit_settlement.
validate_settlement(details) ==
    IF details.gas_estimate.tag = "Err"
    THEN won' = [won EXCEPT !.pc = "done", !.simulated = details.gas_estimate,
                            !.result = WonErr(SimulationFailed)]
    ELSE submit_settlement(details)

\* SettlementRating::simulate_settlements on one settlement: the details carry
\* the settlement that was given and a gas estimate or a simulation error.
simulate_settlements(settlement, ge) == [settlement |-> settlement, gas_estimate |-> ge]

\* simulate_settlements returns one SimulationDetails, which pop() takes.
SimulateDetails ==
    /\ won.pc = "simulate"
    /\ \E ge \in {GasErr} \cup {GasOk(g) : g \in GasEstimates} :
        validate_settlement(simulate_settlements(won.simArg, ge))

\* (a confirmed submission answered with a hash that is not the receipt's)
SubmitOk_WrongHash ==
    /\ won.pc = "submit"
    /\ \E h \in TxHashes :
        won' = [won EXCEPT !.pc = "done", !.receipt = h, !.result = WonOk("0x00")]

\* The submitter returns a receipt: its transaction hash is returned.
SubmitOk ==
    /\ won.pc = "submit"
    /\ \E h \in TxHashes :
        won' = [won EXCEPT !.pc = "done", !.receipt = h, !.result = WonOk(h)]

\* (a failed submission that the driver tries again)
SubmitErr_Retries ==
    /\ won.pc = "submit"
    /\ IF won.submitCalls < 2
       THEN won' = [won EXCEPT !.submitCalls = @ + 1]
       ELSE \E e \in SubmissionErrors : WonReturn(WonErr(e))

\* The submitter returns a SubmissionError: it is returned (as anyhow error).
SubmitErr ==
    /\ won.pc = "submit"
    /\ \E e \in SubmissionErrors : WonReturn(WonErr(e))

\* The autopilot calls on_auction_won with the summary on_auction_started
\* returned for the auction.
WonCalled ==
    /\ pc = "done"
    /\ returned.tag = "Ok"
    /\ on_auction_won(returned.summary)

\* on_auction_won is called with some summary.
WonCalledAny == \E s \in Summaries : on_auction_won(s)

Next ==
    \/ Publish /\ UNCHANGED exceptLoop
    \/ DropSender /\ UNCHANGED exceptLoop
    \/ Start /\ UNCHANGED exceptLoop
    \/ NextBlock /\ UNCHANGED exceptLoop
    \/ ConvertOk /\ UNCHANGED exceptLoop
    \/ ConvertErr /\ UNCHANGED exceptLoop
    \/ CommitOk /\ UNCHANGED exceptLoop
    \/ CommitErr /\ UNCHANGED exceptLoop
    \/ StreamEnd /\ UNCHANGED exceptLoop
    \/ Deadline /\ UNCHANGED exceptLoop

Spec == Init /\ [][Next]_vars

\* The loop with the deadline far away (it does not fire), where the scheduler
\* keeps polling the loop's task and every convert and commit call returns.
NextNoDeadline ==
    \/ Publish /\ UNCHANGED exceptLoop
    \/ DropSender /\ UNCHANGED exceptLoop
    \/ Start /\ UNCHANGED exceptLoop
    \/ NextBlock /\ UNCHANGED exceptLoop
    \/ ConvertOk /\ UNCHANGED exceptLoop
    \/ ConvertErr /\ UNCHANGED exceptLoop
    \/ CommitOk /\ UNCHANGED exceptLoop
    \/ CommitErr /\ UNCHANGED exceptLoop
    \/ StreamEnd /\ UNCHANGED exceptLoop

LoopStep ==
    /\ NextBlock \/ ConvertOk \/ ConvertErr \/ CommitOk \/ CommitErr \/ StreamEnd
    /\ UNCHANGED exceptLoop

SpecNoDeadline == Init /\ [][NextNoDeadline]_vars /\ WF_vars(LoopStep)

\* One on_auction_won call, for any summary.
WonNext ==
    \/ WonCalledAny /\ UNCHANGED exceptWon
    \/ RevealErr /\ UNCHANGED exceptWon
    \/ RevealNone /\ UNCHANGED exceptWon
    \/ RevealSome /\ UNCHANGED exceptWon
    \/ GasPriceErr /\ UNCHANGED exceptWon
    \/ GasPriceOk /\ UNCHANGED exceptWon
    \/ SimulateErr /\ UNCHANGED exceptWon
    \/ SimulateEmpty /\ UNCHANGED exceptWon
    \/ SimulateDetails /\ UNCHANGED exceptWon
    \/ SubmitOk /\ UNCHANGED exceptWon
    \/ SubmitErr /\ UNCHANGED exceptWon

SpecWon == Init /\ [][WonNext]_vars

\* One auction: on_auction_started runs the solve loop, then the autopilot
\* calls on_auction_won with the summary that was returned.
AuctionNext ==
    \/ Publish /\ UNCHANGED exceptLoop
    \/ DropSender /\ UNCHANGED exceptLoop
    \/ Start /\ UNCHANGED exceptLoop
    \/ NextBlock /\ UNCHANGED exceptLoop
    \/ ConvertOk /\ UNCHANGED exceptLoop
    \/ ConvertErr /\ UNCHANGED exceptLoop
    \/ CommitOk /\ UNCHANGED exceptLoop
    \/ CommitErr /\ UNCHANGED exceptLoop
    \/ StreamEnd /\ UNCHANGED exceptLoop
    \/ Deadline /\ UNCHANGED exceptLoop
    \/ WonCalled /\ UNCHANGED exceptWon
    \/ RevealErr /\ UNCHANGED exceptWon
    \/ RevealNone /\ UNCHANGED exceptWon
    \/ RevealSome /\ UNCHANGED exceptWon
    \/ GasPriceErr /\ UNCHANGED exceptWon
    \/ GasPriceOk /\ UNCHANGED exceptWon
    \/ SimulateErr /\ UNCHANGED exceptWon
    \/ SimulateEmpty /\ UNCHANGED exceptWon
    \/ SimulateDetails /\ UNCHANGED exceptWon
    \/ SubmitOk /\ UNCHANGED exceptWon
    \/ SubmitErr /\ UNCHANGED exceptWon

SpecAuction == Init /\ [][AuctionNext]_vars

\* ------------------------------------------------------ the loop under time

\* on_auction_started: deadline = Instant::now() + 25 s, then solve_until_deadline.
on_auction_started ==
    /\ Start
    /\ clock' = [clock EXCEPT !.startedAt = clock.now,
                              !.deadline = clock.now + DeadlineSecs]

\* The time after one step of the clock; a step of a running loop that would
\* jump over the deadline stops at it, so that the deadline is one of the
\* times followed.
Later ==
    IF pc = "running" /\ clock.now < clock.deadline
                     /\ clock.now + TickSecs > clock.deadline
    THEN clock.deadline ELSE clock.now + TickSecs

\* Time passes. The task is woken at its deadline and, with the thread free,
\* is polled then: time passes the deadline of a running loop only while the
\* thread is held, which heldPast records.
Tick ==
    /\ \/ pc = "init" /\ clock.now < TickSecs
       \/ pc = "running" /\ clock.now < clock.deadline
       \/ /\ pc = "running"
          /\ clock.blocked
          /\ clock.now < clock.deadline + MaxLateTicks * TickSecs
    /\ clock' = [clock EXCEPT !.now = Later,
                              !.heldPast = clock.heldPast \/
                                  (clock.blocked /\ Later > clock.deadline)]
    /\ UNCHANGED <<loopVars, exceptTimed>>

\* The thread is held: by the pending convert or commit, which runs without
\* awaiting inside the task's poll, or by another task of the runtime. Until
\* it is given back the loop is not polled.
Block ==
    /\ pc = "running"
    /\ ~clock.blocked
    /\ clock' = [clock EXCEPT !.blocked = TRUE]
    /\ UNCHANGED <<loopVars, exceptTimed>>

\* The holder reaches an await and yields.
Unblock ==
    /\ pc = "running"
    /\ clock.blocked
    /\ clock' = [clock EXCEPT !.blocked = FALSE]
    /\ UNCHANGED <<loopVars, exceptTimed>>

\* An iteration that completes gives the thread back to the loop.
Unblocked == clock' = [clock EXCEPT !.blocked = FALSE]

\* The stream arm begins an iteration when the task is polled.
NextBlockPolled ==
    /\ ~clock.blocked
    /\ NextBlock

\* sleep_until(deadline) is ready when the task is polled at or after the
\* deadline: the timeout arm.
DeadlineFires ==
    /\ clock.now >= clock.deadline
    /\ ~clock.blocked
    /\ Deadline
    /\ clock' = [clock EXCEPT !.returnedAt = clock.now]

\* The stream's end returns at the current time, when the task is polled.
StreamEndAt ==
    /\ ~clock.blocked
    /\ StreamEnd
    /\ clock' = [clock EXCEPT !.returnedAt = clock.now]

TimedNext ==
    \/ Publish /\ UNCHANGED exceptLoop
    \/ DropSender /\ UNCHANGED exceptLoop
    \/ on_auction_started /\ UNCHANGED exceptTimed
    \/ NextBlockPolled /\ UNCHANGED exceptLoop
    \/ ConvertOk /\ UNCHANGED exceptLoop
    \/ ConvertErr /\ Unblocked /\ UNCHANGED exceptTimed
    \/ CommitOk /\ Unblocked /\ UNCHANGED exceptTimed
    \/ CommitErr /\ Unblocked /\ UNCHANGED exceptTimed
    \/ StreamEndAt /\ UNCHANGED exceptTimed
    \/ DeadlineFires /\ UNCHANGED exceptTimed
    \/ Block
    \/ Unblock
    \/ Tick

SpecTimed == Init /\ [][TimedNext]_vars

\* ------------------------------------------------------------ auction store

\* replace_current_auction is called: serde_json::to_value(&auction) succeeds.
replace_current_auction(w, auction) ==
    /\ txn[w].pc = "idle"
    /\ started < MaxReplaces
    /\ started' = started + 1
    /\ txn' = [txn EXCEPT ![w] = [TxnIdle EXCEPT !.pc = "begin",
                                                 !.data = ToJson(auction)]]
    /\ UNCHANGED <<table, nextId, history, lastRead>>

\* serde_json::to_value(&auction)? fails: the call returns before begin.
SerializeErr(w) ==
    /\ txn[w].pc = "idle"
    /\ started < MaxReplaces
    /\ started' = started + 1
    /\ txn' = [txn EXCEPT ![w] = [TxnIdle EXCEPT !.result = ReplaceErr("serialize")]]
    /\ UNCHANGED <<table, nextId, history, lastRead>>

\* let mut ex = self.0.begin().await?
Begin(w) ==
    /\ txn[w].pc = "begin"
    /\ txn' = [txn EXCEPT ![w].pc = "delete"]
    /\ UNCHANGED <<table, nextId, history, started, lastRead>>

\* (the delete runs on the pool, outside the transaction)
DeleteAll_OnPool(w) ==
    /\ txn[w].pc = "delete"
    /\ table' = {}
    /\ txn' = [txn EXCEPT ![w].pc = "insert"]
    /\ UNCHANGED <<nextId, history, started, lastRead>>

\* delete_all_auctions(&mut ex): the statement deletes every committed row,
\* inside the transaction; nothing in replace_current_auction makes it wait
\* for another transaction.
DeleteAll(w) ==
    /\ txn[w].pc = "delete"
    /\ txn' = [txn EXCEPT ![w].pc = "insert",
                          ![w].deleted = {r.id : r \in table}]
    /\ UNCHANGED <<table, nextId, history, started, lastRead>>

\* let id = save(&mut ex, &data).await?: the insert takes the next id.
Save(w) ==
    /\ txn[w].pc = "insert"
    /\ txn' = [txn EXCEPT ![w].pc = "commit",
                          ![w].inserted = [id |-> nextId, json |-> txn[w].data]]
    /\ nextId' = nextId + 1
    /\ UNCHANGED <<table, history, started, lastRead>>

\* ex.commit().await?; Ok(id): the delete and the insert become visible at once.
Commit(w) ==
    /\ txn[w].pc = "commit"
    /\ table' = {r \in table : r.id \notin txn[w].deleted} \cup {txn[w].inserted}
    /\ history' = Append(history, txn[w].inserted)
    /\ txn' = [txn EXCEPT ![w] = [TxnIdle EXCEPT !.result = ReplaceOk(txn[w].inserted.id)]]
    /\ UNCHANGED <<nextId, started, lastRead>>

\* (a failure after which the rows the transaction deleted stay deleted)
ReplaceFails_KeepsDelete(w) ==
    /\ txn[w].pc \in {"begin", "delete", "insert", "commit"}
    /\ txn' = [txn EXCEPT ![w] = [TxnIdle EXCEPT !.result = ReplaceErr(txn[w].pc)]]
    /\ table' = {r \in table : r.id \notin txn[w].deleted}
    /\ UNCHANGED <<nextId, history, started, lastRead>>

\* The ? of begin, delete, insert or commit: the call returns the error and the
\* dropped transaction is rolled back.
ReplaceFails(w) ==
    /\ txn[w].pc \in {"begin", "delete", "insert", "commit"}
    /\ txn' = [txn EXCEPT ![w] = [TxnIdle EXCEPT !.result = ReplaceErr(txn[w].pc)]]
    /\ UNCHANGED <<table, nextId, history, started, lastRead>>

\* most_recent_auction: acquire, load_most_recent, from_value.
most_recent_auction ==
    /\ lastRead' =
        [tag |-> IF table = {} THEN "None" ELSE "Some",
         auction |-> Observable(table),
         commits |-> Len(history),
         during |-> {w \in Writers : txn[w].pc = "commit"}]
    /\ UNCHANGED <<table, nextId, txn, history, started>>

\* most_recent_auction: the ? of acquire, load_most_recent or from_value.
most_recent_auction_Err ==
    /\ lastRead' = [tag |-> "Err", auction |-> "none", commits |-> Len(history),
                    during |-> {w \in Writers : txn[w].pc = "commit"}]
    /\ UNCHANGED <<table, nextId, txn, history, started>>

StoreNext ==
    \/ \E w \in Writers, auction \in Auctions :
        replace_current_auction(w, auction) /\ UNCHANGED exceptStore
    \/ \E w \in Writers : SerializeErr(w) /\ UNCHANGED exceptStore
    \/ \E w \in Writers : Begin(w) /\ UNCHANGED exceptStore
    \/ \E w \in Writers : DeleteAll(w) /\ UNCHANGED exceptStore
    \/ \E w \in Writers : Save(w) /\ UNCHANGED exceptStore
    \/ \E w \in Writers : Commit(w) /\ UNCHANGED exceptStore
    \/ \E w \in Writers : ReplaceFails(w) /\ UNCHANGED exceptStore
    \/ most_recent_auction /\ UNCHANGED exceptStore
    \/ most_recent_auction_Err /\ UNCHANGED exceptStore

SpecStore == Init /\ [][StoreNext]_vars

\* --------------------------------------------------- JSON round trip: steps

\* serde_json::to_value(&orig)
to_value(r) ==
    /\ rec = DefaultCompetition
    /\ serialized = JNull
    /\ rec' = r
    /\ serialized' = Serialize(r)
    /\ UNCHANGED deserialized

\* serde_json::from_value(serialized)
from_value ==
    /\ serialized # JNull
    /\ ~deserialized.done
    /\ deserialized' =
        IF DeserializeOk(serialized)
        THEN [done |-> TRUE, ok |-> TRUE, value |-> Deserialize(serialized)]
        ELSE [done |-> TRUE, ok |-> FALSE, value |-> DefaultCompetition]
    /\ UNCHANGED <<rec, serialized>>

JsonNext ==
    \/ \E r \in SolverCompetitions : to_value(r) /\ UNCHANGED exceptJson
    \/ from_value /\ UNCHANGED exceptJson

SpecJson == Init /\ [][JsonNext]_vars

\* ------------------------------------------------- solver competition store

\* load_by_id and load_by_tx_hash: the rows that the query matches
Matching(ident) ==
    IF ident.kind = "Id"
    THEN {row \in competitions : row.id = ident.id}
    ELSE {row \in competitions : row.tx_hash = SomeHash(ident.hash)}

\* (the row is keyed by the number of rows, not by the auction id)
save_KeyedByCount(data) ==
    /\ \A row \in competitions : row.id # Cardinality(competitions)
    /\ competitions' = competitions \cup
        {[id |-> Cardinality(competitions), json |-> Serialize(data),
          tx_hash |-> data.transaction_hash]}
    /\ saved' = Append(saved, data)
    /\ lastSave' = [tag |-> "Ok", data |-> data]
    /\ lastLoad' = NotLoaded

\* (the row is stored without its transaction hash)
save_DropsHash(data) ==
    /\ \A row \in competitions : row.id # data.auction_id
    /\ competitions' = competitions \cup
        {[id |-> data.auction_id, json |-> Serialize(data), tx_hash |-> NoneHash]}
    /\ saved' = Append(saved, data)
    /\ lastSave' = [tag |-> "Ok", data |-> data]
    /\ lastLoad' = NotLoaded

\* save: the insert of (data.auction_id, to_value(&data), tx_hash) succeeds.
save(data) ==
    /\ \A row \in competitions : row.id # data.auction_id
    /\ competitions' = competitions \cup
        {[id |-> data.auction_id, json |-> Serialize(data),
          tx_hash |-> data.transaction_hash]}
    /\ saved' = Append(saved, data)
    /\ lastSave' = [tag |-> "Ok", data |-> data]
    /\ lastLoad' = NotLoaded

\* (an insert that replaces the row of the same id)
SaveConflict_Overwrites(data) ==
    /\ \E row \in competitions : row.id = data.auction_id
    /\ competitions' = {row \in competitions : row.id # data.auction_id} \cup
        {[id |-> data.auction_id, json |-> Serialize(data),
          tx_hash |-> data.transaction_hash]}
    /\ lastSave' = [tag |-> "Ok", data |-> data]
    /\ lastLoad' = NotLoaded
    /\ UNCHANGED saved

\* save: the insert fails on the primary key: "failed to insert solver competition".
SaveConflict(data) ==
    /\ \E row \in competitions : row.id = data.auction_id
    /\ lastSave' = [tag |-> "Err", data |-> data]
    /\ lastLoad' = NotLoaded
    /\ UNCHANGED <<competitions, saved>>

\* save: the ? of acquire, or of the insert for another reason.
SaveErr(data) ==
    /\ lastSave' = [tag |-> "Err", data |-> data]
    /\ lastLoad' = NotLoaded
    /\ UNCHANGED <<competitions, saved>>

\* (a failed query reported as NotFound)
LoadErr_NotFound(ident) ==
    /\ lastLoad' = [tag |-> "NotFound", ident |-> ident, value |-> DefaultCompetition,
                    rowId |-> NoRowId, infra |-> TRUE, saves |-> Len(saved)]
    /\ lastSave' = NotSaved
    /\ UNCHANGED <<competitions, saved>>

\* load: the ? of acquire or of the query: an error that is not NotFound.
LoadErr(ident) ==
    /\ lastLoad' = [tag |-> "Other", ident |-> ident, value |-> DefaultCompetition,
                    rowId |-> NoRowId, infra |-> TRUE, saves |-> Len(saved)]
    /\ lastSave' = NotSaved
    /\ UNCHANGED <<competitions, saved>>

\* load: the query finds no row: NotFound.
LoadNone(ident) ==
    /\ Matching(ident) = {}
    /\ lastLoad' = [tag |-> "NotFound", ident |-> ident, value |-> DefaultCompetition,
                    rowId |-> NoRowId, infra |-> FALSE, saves |-> Len(saved)]
    /\ lastSave' = NotSaved
    /\ UNCHANGED <<competitions, saved>>

\* load: the query returns a row, and from_value decodes it or fails.
LoadSome(ident) ==
    /\ \E row \in Matching(ident) :
        lastLoad' =
            IF DeserializeOk(row.json)
            THEN [tag |-> "Ok", ident |-> ident, value |-> Deserialize(row.json),
                  rowId |-> row.id, infra |-> FALSE, saves |-> Len(saved)]
            ELSE [tag |-> "Other", ident |-> ident, value |-> DefaultCompetition,
                  rowId |-> row.id, infra |-> FALSE, saves |-> Len(saved)]
    /\ lastSave' = NotSaved
    /\ UNCHANGED <<competitions, saved>>

CompetitionNext ==
    \/ \E data \in StoreRecords : save(data) /\ UNCHANGED exceptCompetition
    \/ \E data \in StoreRecords : SaveConflict(data) /\ UNCHANGED exceptCompetition
    \/ \E data \in StoreRecords : SaveErr(data) /\ UNCHANGED exceptCompetition
    \/ \E ident \in Identifiers : LoadErr(ident) /\ UNCHANGED exceptCompetition
    \/ \E ident \in Identifiers : LoadNone(ident) /\ UNCHANGED exceptCompetition
    \/ \E ident \in Identifiers : LoadSome(ident) /\ UNCHANGED exceptCompetition

SpecCompetition == Init /\ [][CompetitionNext]_vars

\* ------------------------------------------------ order materialiser: steps

\* One stored row is materialised.
Materialise(order) ==
    /\ materialised = NotMaterialised
    /\ fullOrder' = order
    /\ materialised' = full_order_into_model_order(order)

OrderNext ==
    \E order \in FullOrders : Materialise(order) /\ UNCHANGED exceptOrder

SpecOrder == Init /\ [][OrderNext]_vars

\* -------------------------------------- deployed contract constants: steps

\* One call of verify_deployed_contract_constants.
Verify(chain_id, address, code) ==
    /\ verified = NotVerified
    /\ verified' = [tag |-> "called", chain_id |-> chain_id, address |-> address,
                    code |-> code,
                    result |-> verify_deployed_contract_constants(chain_id, address, code)]

VerifyNext ==
    \E chain_id \in ChainIds, address \in H160s, code \in CodeResults :
        Verify(chain_id, address, code) /\ UNCHANGED exceptVerify

SpecVerify == Init /\ [][VerifyNext]_vars

\* ----------------------------------------------- volume filtering: steps

\* One call of filter_orders.
Filter(min_value, orders, external_prices) ==
    /\ filtered = NotFiltered
    /\ filtered' = [tag |-> "called", min_value |-> min_value, orders |-> orders,
                    external_prices |-> external_prices,
                    result |-> filter_orders(min_value, orders, external_prices)]

FilterNext ==
    \E min_value \in MinValues, orders \in OrderLists(MaxOrders),
       external_prices \in ExternalPricesSet :
        Filter(min_value, orders, external_prices) /\ UNCHANGED exceptFilter

SpecFilter == Init /\ [][FilterNext]_vars

\* ------------------------------------------------ solvable orders: steps

\* One call of solvable_orders: what begin, the query of the rows and the query
\* of the latest settlement block give, and what the call returns.
SolvableOrders(beginOk, rows, latest) ==
    /\ solvable = NotSolvable
    /\ solvable' = [tag |-> "called", beginOk |-> beginOk, rows |-> rows,
                    latest |-> latest,
                    result |-> solvable_orders(beginOk, rows, latest)]

SolvableNext ==
    \E beginOk \in BOOLEAN, rows \in RowLists(MaxRows), latest \in BlockResults :
        SolvableOrders(beginOk, rows, latest) /\ UNCHANGED exceptSolvable

SpecSolvable == Init /\ [][SolvableNext]_vars

\* ------------------------------------------------------------------ claims

\* C1: solve_until_deadline returns only through the deadline arm or through
\* the end of the block stream (which needs the sender to be gone), and in both
\* cases the value returned is the result, Ok or Err, of the iteration that
\* completed most recently.
C1_ReturnsMostRecentResult ==
    pc = "done" =>
        /\ cause \in {"deadline", "stream_end"}
        /\ (cause = "stream_end" => ~senderAlive)
        /\ (lastCompleted > 0 => returned = iters[lastCompleted].result)

C1_Witness ==
    /\ pc = "done"
    /\ cause = "stream_end"
    /\ lastCompleted = 2
    /\ iters[1].result.tag = "Ok"
    /\ returned = Err(CommitError)

\* C2: the sentinel error is returned if and only if no iteration has
\* completed when the loop returns.
C2_SentinelIffNoIteration ==
    pc = "done" => (returned = Err(Sentinel) <=> lastCompleted = 0)

C2_Witness ==
    /\ pc = "done"
    /\ cause = "deadline"
    /\ lastCompleted = 0
    /\ Len(iters) = 1
    /\ iters[1].stage = "dropped"
    /\ returned = Err(Sentinel)

\* C3: a step that completes an iteration never ends the loop; the result of
\* that iteration, an error included, becomes the current result, replacing
\* whatever an earlier iteration left there.
C3_FailedIterationNotFatal ==
    [][lastCompleted' # lastCompleted =>
        /\ pc' = "running"
        /\ returned' = NoResult
        /\ current_solution' = iters'[lastCompleted'].result]_vars

C3_Witness ==
    /\ pc = "done"
    /\ Len(iters) = 3
    /\ iters[1].result = Err(NoBlockNumberError)
    /\ iters[2].result = Err(CommitError)
    /\ iters[3].result.tag = "Ok"
    /\ returned = iters[3].result

\* C4 as stated: when the deadline fires after at least one commit succeeded,
\* the summary of the latest successful commit is returned.
C4_Original ==
    (pc = "done" /\ cause = "deadline" /\ LatestSuccessful > 0) =>
        returned = iters[LatestSuccessful].result

\* C4 amended: when the deadline fires, the summary of the latest successful
\* commit is returned if no iteration completed after it; if an iteration
\* that completed later failed, that iteration's error is returned instead.
C4_Amended ==
    (pc = "done" /\ cause = "deadline" /\ LatestSuccessful > 0) =>
        /\ (lastCompleted = LatestSuccessful =>
                returned = iters[LatestSuccessful].result)
        /\ (lastCompleted # LatestSuccessful =>
                /\ lastCompleted > LatestSuccessful
                /\ returned.tag = "Err"
                /\ returned = iters[lastCompleted].result)

C4_Witness ==
    /\ pc = "done"
    /\ cause = "deadline"
    /\ LatestSuccessful = 2
    /\ lastCompleted = 2
    /\ iters[1].result.tag = "Ok"
    /\ iters[1].result # iters[2].result
    /\ returned = iters[2].result

\* C5: a summary that is returned is never stale: when Ok(s) is returned, the
\* latest iteration whose commit succeeded is the one that produced it.
C5_NeverStaleSummary ==
    (pc = "done" /\ returned.tag = "Ok") =>
        /\ LatestSuccessful > 0
        /\ returned = iters[LatestSuccessful].result

C5_Witness ==
    /\ pc = "done"
    /\ returned.tag = "Ok"
    /\ LatestSuccessful = 2
    /\ iters[1].result.tag = "Ok"
    /\ iters[1].result # returned

\* C6 as stated: an error is returned only when the deadline elapsed without
\* any iteration having produced a result.
C6_Original ==
    (pc = "done" /\ returned.tag = "Err") =>
        (cause = "deadline" /\ lastCompleted = 0)

\* C6 amended: the loop adds one failure of its own, the sentinel, returned
\* when the deadline elapsed before any iteration completed; any other
\* error returned is the error of the iteration that completed most recently.
C6_Amended ==
    (pc = "done" /\ returned.tag = "Err") =>
        \/ /\ lastCompleted = 0
           /\ cause = "deadline"
           /\ returned = Err(Sentinel)
        \/ /\ lastCompleted > 0
           /\ returned # Err(Sentinel)
           /\ returned = iters[lastCompleted].result

C6_Witness ==
    /\ pc = "done"
    /\ cause = "stream_end"
    /\ lastCompleted = 1
    /\ returned = Err(ConvertError)

\* C7: every iteration runs with the block that is the channel's current one
\* at the moment the iteration begins, begins only after the iteration before
\* it completed, and so never runs for a block that was superseded meanwhile;
\* the versions used strictly increase.
C7_LossyConsumption ==
    \A i \in 1..Len(iters) :
        /\ iters[i].ver = iters[i].latestAtBegin
        /\ iters[i].block = published[iters[i].ver]
        /\ (iters[i].convertCalled => iters[i].convertArg = published[iters[i].latestAtBegin])
        /\ (i > 1 =>
                /\ iters[i - 1].stage = "done"
                /\ iters[i].ver >= iters[i - 1].latestAtEnd
                /\ iters[i].ver > iters[i - 1].ver)

\* blocks 2 and 3 are published during the iteration for block 1: one further
\* iteration, with block 3
C7_Witness ==
    /\ pc = "done"
    /\ Len(iters) = 2
    /\ Len(published) = 3
    /\ iters[1].convertArg = 1
    /\ iters[1].latestAtEnd = 3
    /\ iters[1].result = Err(CommitError)
    /\ iters[2].convertArg = 3
    /\ returned.tag = "Ok"

\* C8: no iteration, the first included, runs for a block that was already
\* superseded when the loop subscribed, and the first iteration runs with the
\* block that is current when it begins.
C8_FirstUsesCurrentBlock ==
    \A i \in 1..Len(iters) :
        /\ iters[i].ver >= subscribedAt
        /\ (i = 1 => iters[i].ver = iters[i].latestAtBegin)
        /\ (iters[i].convertCalled => iters[i].convertArg >= subscribedAt)

\* the channel held block 1 and then block 2 before the loop started
C8_Witness ==
    /\ subscribedAt = 2
    /\ Len(iters) = 1
    /\ iters[1].convertCalled
    /\ iters[1].convertArg = 2
    /\ returned.tag = "Ok"

\* C9: at most one convert or commit is in flight; the one in flight belongs
\* to the iteration begun last, every earlier iteration has completed, and
\* commit is called only after the convert of the same iteration returned,
\* with the block that convert was called with.
C9_StrictlySequential ==
    /\ Cardinality(InFlight) <= 1
    /\ \A i \in 1..Len(iters) :
        /\ (i \in InFlight => i = Len(iters))
        /\ (i < Len(iters) => iters[i].stage = "done")
        /\ (iters[i].commitCalled =>
                /\ iters[i].convertCalled
                /\ iters[i].stage # "convert"
                /\ iters[i].commitArg = iters[i].convertArg)

C9_Witness ==
    /\ pc = "running"
    /\ Len(iters) = 2
    /\ iters[1].commitCalled
    /\ iters[1].stage = "done"
    /\ iters[2].stage = "commit"
    /\ rxSeen < Latest

\* C10: once the sender is gone, the loop returns through the end of the
\* stream, without the deadline: every iteration it began has completed,
\* none was dropped, and the value returned is the result of the last one.
C10_EndsWhenStreamTerminates ==
    (pc = "running" /\ ~senderAlive) ~>
        /\ pc = "done"
        /\ cause = "stream_end"
        /\ Len(iters) > 0
        /\ \A i \in 1..Len(iters) : iters[i].stage = "done"
        /\ returned = iters[Len(iters)].result

\* the sender is dropped during the commit of the only iteration
C10_Witness ==
    /\ pc = "done"
    /\ cause = "stream_end"
    /\ Len(iters) = 1
    /\ iters[1].commitCalled
    /\ iters[1].aliveAtBegin
    /\ ~iters[1].aliveAtEnd
    /\ returned = iters[1].result
    /\ returned.tag = "Ok"

\* C11: an iteration whose block has no number fails with "no block number"
\* without calling the converter or the solver; from the moment the stream
\* yielded such a block that error is the current result, and it is what the
\* loop returns if no later iteration completes.
C11_NoBlockNumber ==
    /\ \A i \in 1..Len(iters) :
        iters[i].block = NoNumber =>
            /\ iters[i].result = Err(NoBlockNumberError)
            /\ iters[i].stage = "done"
            /\ ~iters[i].convertCalled
            /\ ~iters[i].commitCalled
    /\ (pc # "init" /\ rxSeen > 0 /\ published[rxSeen] = NoNumber) =>
        /\ Len(iters) > 0
        /\ lastCompleted = Len(iters)
        /\ iters[lastCompleted].ver = rxSeen
        /\ current_solution = Err(NoBlockNumberError)
        /\ (pc = "done" => returned = Err(NoBlockNumberError))

\* a valid block, then an invalid one: the error of the second is returned
C11_Witness ==
    /\ pc = "done"
    /\ Len(iters) = 2
    /\ iters[1].result.tag = "Ok"
    /\ iters[2].block = NoNumber
    /\ returned = Err(NoBlockNumberError)

\* C19: the step in which the deadline fires returns the result the last
\* completed iteration left (the sentinel when none completed) and drops the
\* computation in flight, which never gets a result; after the return nothing
\* of the loop's state changes any more.
C19_DeadlineDropsInFlight ==
    [][/\ (pc = "running" /\ pc' = "done" /\ cause' = "deadline") =>
            /\ returned' = IF lastCompleted = 0 THEN Err(Sentinel)
                           ELSE iters[lastCompleted].result
            /\ lastCompleted' = lastCompleted
            /\ \A i \in InFlight :
                /\ iters'[i].stage = "dropped"
                /\ iters'[i].result = NoResult
       /\ pc = "done" =>
            /\ pc' = "done"
            /\ iters' = iters
            /\ returned' = returned
            /\ current_solution' = current_solution]_vars

\* the deadline fires during the commit of the second iteration
C19_Witness ==
    /\ pc = "done"
    /\ cause = "deadline"
    /\ Len(iters) = 2
    /\ iters[1].result.tag = "Ok"
    /\ iters[2].stage = "dropped"
    /\ iters[2].commitCalled
    /\ iters[2].result = NoResult
    /\ returned = iters[1].result

\* C12: when reveal returns None, on_auction_won returns ExecutionRejected
\* without estimating the gas price, simulating or submitting; and
\* ExecutionRejected is returned in that case only.
C12_RejectedIffRevealNone ==
    /\ won.revealed = "None" =>
        /\ won.pc = "done"
        /\ won.result = WonErr(ExecutionRejected)
        /\ won.gasCalls = 0
        /\ won.simCalls = 0
        /\ won.submitCalls = 0
    /\ won.result = WonErr(ExecutionRejected) => won.revealed = "None"

C12_Witness ==
    /\ won.pc = "done"
    /\ won.revealCalls = 1
    /\ won.revealed = "None"
    /\ won.result = WonErr(ExecutionRejected)

\* C13: the phases run in the order reveal, gas price, simulate, submit, each
\* called at most once and only after the one before it returned
\* successfully; an error of a phase is returned with no later phase called.
C13_PhasesInOrder ==
    /\ won.revealCalls <= 1 /\ won.gasCalls <= 1 /\ won.simCalls <= 1
    /\ won.gasCalls > 0 => (won.revealCalls = 1 /\ won.revealed = "Some")
    /\ won.simCalls > 0 => (won.gasCalls = 1 /\ won.gasPriced = "Ok")
    /\ won.submitCalls > 0 =>
        /\ won.revealed = "Some"
        /\ won.gasPriced = "Ok"
        /\ won.simCalls = 1
        /\ won.simulated.tag = "Ok"
    /\ won.revealed \in {"Err", "None"} =>
        (won.pc = "done" /\ won.gasCalls = 0 /\ won.simCalls = 0 /\ won.submitCalls = 0)
    /\ won.gasPriced = "Err" =>
        (won.pc = "done" /\ won.result = WonErr(GasPriceError)
            /\ won.simCalls = 0 /\ won.submitCalls = 0)
    /\ (won.result.tag = "Err"
            /\ won.result.err \in {SimulateError, NoSimulationResults, SimulationFailed}) =>
        (won.simCalls = 1 /\ won.submitCalls = 0)

C13_Witness ==
    /\ won.pc = "submit"
    /\ won.revealCalls = 1 /\ won.gasCalls = 1 /\ won.simCalls = 1 /\ won.submitCalls = 1
    /\ won.revealed = "Some"
    /\ won.simulated.tag = "Ok"

\* C14: when the simulation of the revealed settlement fails (its gas
\* estimate is an error), on_auction_won returns the error "simulation
\* failed" and the settlement is not submitted.
C14_SimulationFailed ==
    won.simulated.tag = "Err" =>
        /\ won.pc = "done"
        /\ won.result = WonErr(SimulationFailed)
        /\ won.submitCalls = 0

C14_Witness ==
    /\ won.simCalls = 1
    /\ won.simArg \in Settlements
    /\ won.simulated.tag = "Err"
    /\ won.result = WonErr(SimulationFailed)

\* C15: one on_auction_won call calls the submitter at most once, with the
\* settlement that was revealed; when the submission fails its error is
\* returned and the submitter is not called again.
C15_SubmitAtMostOnce ==
    /\ won.submitCalls <= 1
    /\ won.submitCalls = 1 =>
        /\ won.settlement \in Settlements
        /\ won.submitArg.settlement = won.settlement
        /\ won.submitArg.gas_estimate = won.simulated
    /\ (won.result.tag = "Err" /\ won.result.err \in SubmissionErrors) =>
        (won.pc = "done" /\ won.submitCalls = 1)

C15_Witness ==
    /\ won.pc = "done"
    /\ won.submitCalls = 1
    /\ won.submitArg.settlement = "settlement B"
    /\ won.result.tag = "Err"
    /\ won.result.err \in SubmissionErrors

\* C16: Ok(hash) is returned only when the submitter, called with the
\* revealed settlement, returned a receipt, and hash is that receipt's
\* transaction hash; every other outcome of the call is an error.
C16_OkIffReceipt ==
    /\ won.result.tag = "Ok" =>
        /\ won.pc = "done"
        /\ won.receipt \in TxHashes
        /\ won.result.hash = won.receipt
        /\ won.submitCalls = 1
        /\ won.submitArg.settlement = won.settlement
    /\ won.pc = "done" =>
        /\ won.result.tag \in {"Ok", "Err"}
        /\ (won.result.tag = "Ok" <=> won.receipt # NoHash)

C16_Witness ==
    /\ won.pc = "done"
    /\ won.settlement = "settlement B"
    /\ won.receipt = "0xbb"
    /\ won.result = WonOk("0xbb")

\* C17: reveal is called by on_auction_won only, never by a step of the solve
\* loop; when it is called the loop that produced the summary has returned
\* that summary and has no convert or commit in flight, and from then on the
\* loop starts and completes nothing.
C17_CommitLoopEndsBeforeReveal ==
    [][/\ won'.revealCalls # won.revealCalls =>
            /\ won.pc = "idle"
            /\ won'.pc = "reveal"
            /\ won'.revealArg = returned.summary
            /\ pc = "done"
            /\ returned.tag = "Ok"
            /\ InFlight = {}
            /\ UNCHANGED exceptWon
       /\ won.revealCalls > 0 =>
            /\ pc' = "done"
            /\ iters' = iters
            /\ InFlight' = {}]_vars

\* the deadline fired during a commit and the summary of an earlier
\* iteration was returned and then revealed
C17_Witness ==
    /\ won.revealCalls = 1
    /\ won.revealed = "Some"
    /\ cause = "deadline"
    /\ Len(iters) = 2
    /\ iters[2].stage = "dropped"
    /\ iters[2].commitCalled
    /\ won.revealArg = iters[1].result.summary

\* The thread has been free whenever the task was to run: nothing has held it
\* over the deadline (the cooperative scheduling the loop is written for).
Cooperative == ~clock.heldPast

\* The loop is running, its deadline is reached and the thread is free.
Due == pc = "running" /\ clock.now >= clock.deadline /\ ~clock.blocked

C18_State ==
    /\ pc # "init" => clock.deadline = clock.startedAt + DeadlineSecs
    /\ (pc = "running" /\ Cooperative) => clock.now <= clock.deadline
    /\ Due => ENABLED DeadlineFires
    /\ (pc = "done" /\ Cooperative) =>
        /\ clock.returnedAt <= clock.startedAt + DeadlineSecs
        /\ cause = "deadline" =>
            clock.returnedAt = clock.startedAt + DeadlineSecs
    /\ (pc = "done" /\ ~Cooperative) =>
        clock.returnedAt > clock.startedAt + DeadlineSecs

\* C18: on_auction_started sets the deadline 25 seconds after the call, and
\* the loop returns no later than that deadline: a running loop is never past
\* it, a loop that has returned did so by then, and the timeout arm returns
\* exactly then, whatever convert or commit is pending and whether or not
\* the sender lives. Once the deadline is reached and the thread is free, no
\* time passes before the return. All of this is for a task that is polled
\* when it is woken; a collaborator or another task that holds the thread
\* over the deadline, and only that, makes the return late.
C18_ReturnsByDeadline == [](C18_State) /\ [][Due => clock'.now = clock.now]_vars

\* the commit of the only iteration never completes and the sender lives: the
\* loop returns the sentinel at the deadline and drops the commit
C18_Witness ==
    /\ pc = "done"
    /\ cause = "deadline"
    /\ senderAlive
    /\ Cooperative
    /\ Len(iters) = 1
    /\ iters[1].stage = "dropped"
    /\ iters[1].commitCalled
    /\ clock.startedAt = TickSecs
    /\ clock.returnedAt = TickSecs + DeadlineSecs
    /\ returned = Err(Sentinel)

\* C20: replace_current_auction is atomic for readers. The rows a reader can
\* see change only when a replace commits, in one step, from what was seen
\* before (the previous auction) to either that or the auction of the committing
\* replace (the new one), and never to an empty table; a read returns the one
\* auction seen at that moment, and returns None only if nothing was ever
\* committed.
C20_AtomicForReaders ==
    [][ /\ table' # table =>
            /\ Len(history') = Len(history) + 1
            /\ table' # {}
            /\ Observable(table') \in
                   {Observable(table), FromJson(history'[Len(history')].json)}
        /\ lastRead' # lastRead =>
            /\ table' = table
            /\ lastRead'.tag = "None" => Len(history) = 0
            /\ lastRead'.tag = "Some" =>
                /\ Len(history) > 0
                /\ lastRead'.auction = Observable(table)
                /\ \E k \in 1..Len(history) :
                       FromJson(history[k].json) = lastRead'.auction
      ]_vars

\* a read between the insert and the commit of a replace returned the previous
\* auction, and the table still holds it
C20_Witness ==
    /\ lastRead.tag = "Some"
    /\ lastRead.commits = 1
    /\ Len(history) = 1
    /\ \E w \in lastRead.during :
        /\ txn[w].pc = "commit"
        /\ txn[w].deleted # {}
        /\ FromJson(txn[w].inserted.json) # lastRead.auction
    /\ lastRead.auction = FromJson(history[1].json)

SavedUnder ==
    {k \in 1..lastLoad.saves :
        IF lastLoad.ident.kind = "Id"
        THEN saved[k].auction_id = lastLoad.ident.id
        ELSE saved[k].transaction_hash = SomeHash(lastLoad.ident.hash)}

\* a load that met no failure of the connection or of the query
Loaded(kind) ==
    /\ lastLoad.tag # "none"
    /\ lastLoad.ident.kind = kind
    /\ ~lastLoad.infra

\* C24: after save(r) succeeded, load(Identifier::Id(r.auction_id)) returns a
\* record equal to r, whatever else was saved before or after.
C24_Original ==
    Loaded("Id") =>
        \A k \in SavedUnder :
            /\ lastLoad.tag = "Ok"
            /\ PartialEq(lastLoad.value, saved[k])

\* C25 as stated: every record saved with Some(h) is what load(Transaction(h))
\* returns, the same row as load(Id(auction_id)) reads; and a transaction-hash
\* lookup never returns a record saved with another hash or with None.
C25_Original ==
    Loaded("Transaction") =>
        /\ \A k \in SavedUnder : lastLoad.rowId = saved[k].auction_id
        /\ \A k \in 1..lastLoad.saves :
            saved[k].auction_id = lastLoad.rowId => k \in SavedUnder

\* C25, amended: load(Transaction(h)) reads the row of a record saved with
\* Some(h) whenever there is one, the same row as load(Id(auction_id)) reads
\* when only one record carries h and one of them when several do; it never
\* returns a record saved with another hash or with None.
C25_Amended ==
    Loaded("Transaction") =>
        /\ SavedUnder # {} =>
            \E k \in SavedUnder : lastLoad.rowId = saved[k].auction_id
        /\ \A k \in 1..lastLoad.saves :
            saved[k].auction_id = lastLoad.rowId => k \in SavedUnder

\* a lookup by hash returned the second of two records saved with that hash
C25_Witness ==
    /\ Loaded("Transaction")
    /\ lastLoad.tag = "Ok"
    /\ lastLoad.saves = 2
    /\ SavedUnder = {1, 2}
    /\ lastLoad.rowId = saved[2].auction_id
    /\ lastLoad.value = saved[2]

\* C26: load returns NotFound exactly when its query ran and no record was ever
\* saved under the identifier; a failure of the connection, of the query or of
\* the decoding is another kind of error.
C26_NotFoundIffNeverSaved ==
    lastLoad.tag # "none" =>
        /\ lastLoad.tag = "NotFound" <=> (~lastLoad.infra /\ SavedUnder = {})
        /\ lastLoad.infra => lastLoad.tag = "Other"

\* NotFound for a hash while a record with another hash is stored
C26_Witness ==
    /\ lastLoad.tag = "NotFound"
    /\ lastLoad.ident.kind = "Transaction"
    /\ lastLoad.saves = 1
    /\ saved[1].transaction_hash.some
    /\ saved[1].transaction_hash # SomeHash(lastLoad.ident.hash)

\* C27: every row's key is the auction_id inside its JSON, and load(Id(i))
\* returns only a record whose auction_id is i.
C27_KeyIsAuctionId ==
    /\ \A row \in competitions : Field(row.json, <<"auction", "id">>) = JInt(row.id)
    /\ (lastLoad.tag = "Ok" /\ lastLoad.ident.kind = "Id") =>
           lastLoad.value.auction_id = lastLoad.ident.id

\* a load by id 1 after records 1 and 0 were saved, in that order
C27_Witness ==
    /\ lastLoad.tag = "Ok"
    /\ lastLoad.ident = Id(1)
    /\ lastLoad.value.auction_id = 1
    /\ Len(saved) = 2
    /\ saved[1].auction_id = 1

\* C28: a step never changes or removes a stored row, no two rows have the
\* same id, and a save for an id that has a row fails and changes nothing.
C28_AppendOnly ==
    [][ /\ \A row \in competitions : row \in competitions'
        /\ \A r1, r2 \in competitions' : r1.id = r2.id => r1 = r2
        /\ (lastSave' # lastSave
            /\ lastSave'.tag # "none"
            /\ \E row \in competitions : row.id = lastSave'.data.auction_id) =>
               /\ lastSave'.tag = "Err"
               /\ competitions' = competitions
      ]_vars

\* a save of another record for a stored id failed and the row is as it was
C28_Witness ==
    /\ lastSave.tag = "Err"
    /\ Len(saved) = 1
    /\ saved[1].auction_id = lastSave.data.auction_id
    /\ saved[1] # lastSave.data
    /\ competitions = {[id |-> saved[1].auction_id, json |-> Serialize(saved[1]),
                        tx_hash |-> saved[1].transaction_hash]}

\* the keys of the object, as the test's expected JSON writes them
Keys(obj) == [i \in 1..Len(obj.v) |-> obj.v[i][1]]

\* the keys of a prices object ascend, as strings
Ascending(obj) ==
    \A i, j \in 1..Len(obj.v) :
        i < j => BytesLess([n \in 1..(Len(obj.v[i][1]) - 2) |-> HexValue(obj.v[i][1][n + 2])],
                           [n \in 1..(Len(obj.v[j][1]) - 2) |-> HexValue(obj.v[j][1][n + 2])])

\* C29: deserialize(serialize(r)) = r for every record r, the keys are
\* camelCase, and prices and clearingPrices are emitted in ascending key order.
C29_Original ==
    deserialized.done =>
        /\ deserialized.ok
        /\ PartialEq(deserialized.value, rec)
        /\ Keys(serialized) =
               << <<"auction", "Id">>, <<"gas", "Price">>,
                  <<"auction", "Start", "Block">>,
                  <<"liquidity", "Collected", "Block">>,
                  <<"competition", "Simulation", "Block">>,
                  <<"transaction", "Hash">>, <<"auction">>, <<"solutions">> >>
        /\ Ascending(Field(serialized, <<"auction">>).v[2][2])
        /\ \A i \in 1..Len(rec.solutions) :
               /\ Keys(Field(serialized, <<"solutions">>).v[i]) =
                      << <<"solver">>, <<"objective">>, <<"clearing", "Prices">>,
                         <<"orders">>, <<"call", "Data">> >>
               /\ Ascending(Field(Field(serialized, <<"solutions">>).v[i],
                                  <<"clearing", "prices">>))

\* C30: a materialised order has executed_amount = sum_buy when the stored
\* kind is Buy and sum_sell - sum_fee when it is Sell, never negative; a Sell
\* row with sum_fee > sum_sell yields an error and no order.
C30_ExecutedAmount ==
    materialised.tag # "none" =>
        /\ materialised.tag = "Ok" =>
            /\ materialised.order.metadata.executed_amount >= 0
            /\ fullOrder.kind = "DbOrderKind::Buy" =>
                   DecEq(Dec(materialised.order.metadata.executed_amount, 1),
                         fullOrder.sum_buy)
            /\ fullOrder.kind = "DbOrderKind::Sell" =>
                   DecEq(Dec(materialised.order.metadata.executed_amount, 1),
                         DecSub(fullOrder.sum_sell, fullOrder.sum_fee))
        /\ (fullOrder.kind = "DbOrderKind::Sell"
            /\ fullOrder.sum_fee.num * fullOrder.sum_sell.den
                   > fullOrder.sum_sell.num * fullOrder.sum_fee.den) =>
               /\ materialised.tag = "Err"
               /\ materialised.err = "executed_amount does not fit into u256"

\* a Sell row with a fee above the sold amount was given and was refused
C30_Witness ==
    /\ materialised.tag = "Err"
    /\ fullOrder.kind = "DbOrderKind::Sell"
    /\ fullOrder.sum_sell = Dec(1, 1)
    /\ fullOrder.sum_fee = Dec(2, 1)
    /\ fullOrder.sum_buy = Dec(1, 1)

\* a decimal that is one of the unsigned 256-bit integers
FitsU256(d) == \E n \in 0..U256Max : DecEq(Dec(n, 1), d)

\* the errors naming a field of the row whose value is out of range
OutOfRange(row) ==
    {e \in {"executed_amount does not fit into u256", "full_fee_amount is not U256",
            "sell_amount is not U256", "buy_amount is not U256",
            "valid_to is not u32", "fee_amount is not U256"} :
        \/ e = "executed_amount does not fit into u256"
              /\ ~FitsU256(IF row.kind = "DbOrderKind::Buy" THEN row.sum_buy
                           ELSE DecSub(row.sum_sell, row.sum_fee))
        \/ e = "full_fee_amount is not U256" /\ ~FitsU256(row.full_fee_amount)
        \/ e = "sell_amount is not U256" /\ ~FitsU256(row.sell_amount)
        \/ e = "buy_amount is not U256" /\ ~FitsU256(row.buy_amount)
        \/ e = "valid_to is not u32" /\ row.valid_to \notin 0..U32Max
        \/ e = "fee_amount is not U256" /\ ~FitsU256(row.fee_amount)}

\* C31: when an amount of the stored row does not fit an unsigned 256-bit
\* integer or valid_to does not fit 32 unsigned bits, materialising fails with
\* an error naming such a field and gives no order; an order that is produced
\* carries exactly the stored values.
C31_FieldErrors ==
    materialised.tag # "none" =>
        /\ OutOfRange(fullOrder) # {} =>
               /\ materialised.tag = "Err"
               /\ materialised.err \in OutOfRange(fullOrder)
               /\ materialised.order = <<>>
        /\ materialised.tag = "Ok" =>
               /\ DecEq(Dec(materialised.order.metadata.full_fee_amount, 1),
                        fullOrder.full_fee_amount)
               /\ DecEq(Dec(materialised.order.data.sell_amount, 1), fullOrder.sell_amount)
               /\ DecEq(Dec(materialised.order.data.buy_amount, 1), fullOrder.buy_amount)
               /\ DecEq(Dec(materialised.order.data.fee_amount, 1), fullOrder.fee_amount)
               /\ materialised.order.data.valid_to = fullOrder.valid_to

\* a row whose only out-of-range field is valid_to was given and was refused
C31_Witness ==
    /\ materialised.tag = "Err"
    /\ materialised.err = "valid_to is not u32"
    /\ fullOrder.valid_to = U32Max + 1
    /\ OutOfRange(fullOrder) = {"valid_to is not u32"}

\* C32: each of the four translations gives a domain variant for every stored
\* variant and gives different domain variants for different stored variants;
\* a materialised order carries the translated kind, balances and signing
\* scheme of its row.
C32_EnumTranslation ==
    /\ \A a, b \in DbOrderKinds :
          /\ order_kind_from(a) \in OrderKinds
          /\ order_kind_from(a) = order_kind_from(b) => a = b
    /\ \A a, b \in DbSellTokenSources :
          /\ sell_token_source_from(a) \in SellTokenSources
          /\ sell_token_source_from(a) = sell_token_source_from(b) => a = b
    /\ \A a, b \in DbBuyTokenDestinations :
          /\ buy_token_destination_from(a) \in BuyTokenDestinations
          /\ buy_token_destination_from(a) = buy_token_destination_from(b) => a = b
    /\ \A a, b \in DbSigningSchemes :
          /\ signing_scheme_from(a) \in SigningSchemes
          /\ signing_scheme_from(a) = signing_scheme_from(b) => a = b
    /\ materialised.tag = "Ok" =>
          /\ materialised.order.signature.scheme
                 = signing_scheme_from(fullOrder.signing_scheme)
          /\ materialised.order.data.kind = order_kind_from(fullOrder.kind)
          /\ materialised.order.data.sell_token_balance
                 = sell_token_source_from(fullOrder.sell_token_balance)
          /\ materialised.order.data.buy_token_balance
                 = buy_token_destination_from(fullOrder.buy_token_balance)

\* a Buy row signed with PreSign, sold from External, bought to Internal, was
\* materialised
C32_Witness ==
    /\ materialised.tag = "Ok"
    /\ fullOrder.kind = "DbOrderKind::Buy"
    /\ fullOrder.signing_scheme = "DbSigningScheme::PreSign"
    /\ fullOrder.sell_token_balance = "DbSellTokenSource::External"
    /\ fullOrder.buy_token_balance = "DbBuyTokenDestination::Internal"
    /\ materialised.order.signature.scheme = "SigningScheme::PreSign"

\* the bytes contain the bytes
ContainsBytes(bytes, part) ==
    \E i \in 0..(Len(bytes) - Len(part)) : SubSeq(bytes, i + 1, i + Len(part)) = part

\* C33 as stated: the call succeeds exactly when the code was loaded and its
\* bytes contain both the domain separator of (chain_id, address) and the
\* order type hash; without the domain separator the error is the
\* domain-separator error, with it and without the type hash the
\* order-type-hash error.
C33_Original ==
    verified.tag = "called" =>
        LET hasSeparator ==
                ContainsBytes(verified.code.bytes,
                              DomainSeparatorNew(verified.chain_id, verified.address))
            hasTypeHash == ContainsBytes(verified.code.bytes, TYPE_HASH)
        IN /\ verified.result.tag = "Ok"
                  <=> (verified.code.ok /\ hasSeparator /\ hasTypeHash)
           /\ (verified.code.ok /\ ~hasSeparator) =>
                  verified.result = VerifyErr("Bytecode did not contain domain separator")
           /\ (verified.code.ok /\ hasSeparator /\ ~hasTypeHash) =>
                  verified.result = VerifyErr("Bytecode did not contain order type hash")

\* C34: in every iteration the converter is called only for a block that has a
\* number, and with that block; commit is called only after the converter
\* succeeded, with the auction made for that block; an invalid block calls
\* neither and a converter error leaves commit uncalled.
C34_ConvertThenCommit ==
    \A i \in 1..Len(iters) :
        /\ iters[i].block = published[iters[i].ver]
        /\ iters[i].convertCalled =>
               /\ block_number(iters[i].block).tag = "Ok"
               /\ iters[i].convertArg = iters[i].block
        /\ iters[i].commitCalled =>
               /\ iters[i].convertCalled
               /\ iters[i].commitArg = iters[i].convertArg
               /\ iters[i].result # Err(ConvertError)
        /\ block_number(iters[i].block).tag = "Err" =>
               /\ ~iters[i].convertCalled
               /\ ~iters[i].commitCalled
        /\ iters[i].result = Err(ConvertError) =>
               /\ iters[i].convertCalled
               /\ ~iters[i].commitCalled

\* one iteration ended in a converter error, one met a block without a number
\* and one reached commit
C34_Witness ==
    /\ \E i \in 1..Len(iters) :
           iters[i].result = Err(ConvertError) /\ ~iters[i].commitCalled
    /\ \E i \in 1..Len(iters) :
           iters[i].block = NoNumber /\ iters[i].result = Err(NoBlockNumberError)
    /\ \E i \in 1..Len(iters) : iters[i].commitCalled /\ iters[i].result.tag = "Ok"

\* the native value of the amount is known and at least min_value
NativeAtLeast(prices, token, amount, min_value) ==
    /\ prices[token] # NoPrice
    /\ amount * prices[token].num >= min_value * prices[token].den

\* the order has enough volume on its buy or on its sell side
EnoughVolume(order) ==
    \/ NativeAtLeast(filtered.external_prices, order.buy_token, order.buy_amount,
                     filtered.min_value)
    \/ NativeAtLeast(filtered.external_prices, order.sell_token, order.sell_amount,
                     filtered.min_value)

Unpriced(order) ==
    \/ filtered.external_prices[order.buy_token] = NoPrice
    \/ filtered.external_prices[order.sell_token] = NoPrice

\* C35 as stated: the orders passed on are exactly those with enough volume
\* on one side, in their order and unaltered, and filtering panics whenever an
\* order has a token without an external price.
C35_Original ==
    filtered.tag = "called" =>
        /\ ~filtered.result.panic =>
               filtered.result.value = SelectSeq(filtered.orders, EnoughVolume)
        /\ (\E i \in 1..Len(filtered.orders) : Unpriced(filtered.orders[i])) =>
               filtered.result.panic

\* filtering needs a price that is missing: the buy token's, or the sell
\* token's when the buy side is below the minimum
NeedsMissingPrice(order) ==
    \/ filtered.external_prices[order.buy_token] = NoPrice
    \/ /\ ~NativeAtLeast(filtered.external_prices, order.buy_token, order.buy_amount,
                          filtered.min_value)
       /\ filtered.external_prices[order.sell_token] = NoPrice

\* C35 amended: filtering panics exactly when it needs a missing price; when
\* it returns, the orders passed on are exactly those with enough volume on
\* one side, in their order and unaltered, and every order with a token
\* without a price is among them.
C35_Amended ==
    filtered.tag = "called" =>
        /\ filtered.result.panic
               <=> \E i \in 1..Len(filtered.orders) :
                       NeedsMissingPrice(filtered.orders[i])
        /\ ~filtered.result.panic =>
               /\ filtered.result.value = SelectSeq(filtered.orders, EnoughVolume)
               /\ \A i \in 1..Len(filtered.orders) :
                      Unpriced(filtered.orders[i]) =>
                          \E j \in 1..Len(filtered.result.value) :
                              filtered.result.value[j] = filtered.orders[i]

\* the sell token has no price, and the call returned the one order given,
\* whose buy side has enough volume
C35_Witness ==
    /\ filtered.tag = "called"
    /\ ~filtered.result.panic
    /\ filtered.min_value = 2
    /\ filtered.external_prices["sell_token"] = NoPrice
    /\ filtered.orders = <<LimitOrder(3, 0, 4)>>
    /\ filtered.result.value = filtered.orders

\* C36: the expect in submit_settlement never panics: whenever
\* submit_settlement was reached, the details it was given carry an Ok gas
\* estimate, the one the simulation produced.
C36_ExpectNeverFails ==
    /\ won.pc # "panicked"
    /\ won.submitCalls > 0 =>
          /\ won.submitArg.gas_estimate.tag = "Ok"
          /\ won.submitArg.gas_estimate.gas \in GasEstimates
          /\ won.simulated = won.submitArg.gas_estimate
    /\ won.simulated.tag = "Err" => won.submitCalls = 0

\* submit_settlement was reached with the second gas estimate
C36_Witness ==
    /\ won.submitCalls = 1
    /\ won.simCalls = 1
    /\ won.submitArg.gas_estimate = GasOk("gas estimate B")

\* C37: once solve_until_deadline has returned, through the deadline or
\* through the end of the stream, no convert and no commit is pending and none
\* begins: the iterations and the stream's position stay as they are, also in
\* steps that publish further blocks.
C37_NoWorkAfterReturn ==
    [][pc = "done" =>
          /\ cause \in {"deadline", "stream_end"}
          /\ InFlight = {}
          /\ iters' = iters
          /\ rxSeen' = rxSeen
          /\ \A i \in 1..Len(iters') :
                 /\ iters'[i].ver <= rxSeen
                 /\ iters'[i].stage \in {"done", "dropped"}]_vars

\* the deadline fired during a convert and two further blocks were published
\* that no iteration ran for
C37_Witness ==
    /\ pc = "done"
    /\ cause = "deadline"
    /\ Len(iters) = 1
    /\ iters[1].stage = "dropped"
    /\ iters[1].convertCalled
    /\ ~iters[1].commitCalled
    /\ iters[1].latestAtBegin = 1
    /\ Latest = 3

\* C38: a step in which replace_current_auction returns an error, whichever
\* step of it failed, leaves the table as it was, so that most_recent_auction
\* still gives the auction it gave before; and the rows change only in a step
\* that puts the new row in place of the deleted ones.
C38_FailureLeavesAuction ==
    [][ /\ \A w \in Writers :
             (txn'[w] # txn[w] /\ txn'[w].result.tag = "Err") =>
                 /\ txn'[w].result.at \in
                        {"serialize", "begin", "delete", "insert", "commit"}
                 /\ table' = table
                 /\ history' = history
                 /\ Observable(table') = Observable(table)
        /\ table' # table =>
             \E w \in Writers :
                 /\ txn'[w].result.tag = "Ok"
                 /\ txn[w].inserted \in table'
                 /\ txn[w].inserted.id = txn'[w].result.id
      ]_vars

\* a replace failed at its commit, after its delete and its insert, and the
\* table holds the auction committed before
C38_Witness ==
    /\ Len(history) = 1
    /\ table = {history[1]}
    /\ nextId = history[1].id + 2
    /\ \E w \in Writers : txn[w].result = ReplaceErr("commit")

\* the item is an error of the query or a row that does not materialise
RowFails(item) == ~item.ok \/ full_order_into_model_order(item.row).tag = "Err"

\* C39: solvable_orders returns an error and no orders when begin fails, when
\* an item of the query is an error, when a row does not materialise or when
\* the latest settlement block cannot be read; otherwise it returns one
\* materialised order per row, in the order of the rows, and the latest
\* settlement block that was read.
C39_AllOrNothing ==
    solvable.tag = "called" =>
        LET failed == \/ ~solvable.beginOk
                      \/ \E i \in 1..Len(solvable.rows) : RowFails(solvable.rows[i])
                      \/ ~solvable.latest.ok
        IN /\ failed =>
                  /\ solvable.result.tag = "Err"
                  /\ solvable.result.orders = <<>>
           /\ ~failed =>
                  /\ solvable.result.tag = "Ok"
                  /\ Len(solvable.result.orders) = Len(solvable.rows)
                  /\ \A i \in 1..Len(solvable.rows) :
                         MaterialiseOk(solvable.result.orders[i])
                             = full_order_into_model_order(solvable.rows[i].row)
                  /\ solvable.result.latest_settlement_block = solvable.latest.n

\* the first row materialised and the second did not: an error and no order
C39_Witness ==
    /\ solvable.tag = "called"
    /\ solvable.beginOk
    /\ Len(solvable.rows) = 2
    /\ ~RowFails(solvable.rows[1])
    /\ solvable.rows[2] = RowOk([GoodRow EXCEPT !.valid_to = U32Max + 1])
    /\ solvable.result = SolvableErr("valid_to is not u32")

====
